---- MODULE Spec2Model ----
(***************************************************************************)
(* Harmonization service of fhir-pipeline: the CloudEvent handler          *)
(* (src/harmonization/index.ts), the CSV and HL7v2 parsers, the FHIR       *)
(* mapper and bundle builder (src/harmonization/fhir-mapper.ts) and the    *)
(* remote FHIR store the handler submits transaction bundles to.           *)
(*                                                                         *)
(* Strings the code only compares or concatenates are TLA+ strings.        *)
(* Strings the code inspects character by character (paths, raw field      *)
(* text, type tags) are sequences of one-character strings ("text");       *)
(* Str turns text into a string.                                           *)
(***************************************************************************)
EXTENDS Integers, Sequences, FiniteSets, TLC

VARIABLES
    now,      \* the wall clock, in days since the first day of the run
    store,    \* the remote FHIR store: the set of resources created so far
    inv,      \* the handler invocations: locals, position and response of each
    data,     \* the ParsedData handed to createFHIRBundle (bundle-builder runs)
    built,    \* the bundles createFHIRBundle returned, one per call, in call order
    arg,      \* the input of a run of one function on its own
    out       \* what that function returned: [done |-> FALSE] before the call

vars == <<now, store, inv, data, built, arg, out>>

(***************************************************************************)
(* Bounds of the model.                                                    *)
(***************************************************************************)
NumInv == 2            \* handler invocations in flight or finished
MaxDay == 2            \* days the clock can show
MaxPatients == 2       \* length of the patient list given to the bundle builder
MaxObservations == 2   \* length of the observation list given to the builder
MaxCalls == 2          \* calls of the bundle builder on the same data

(***************************************************************************)
(* JavaScript values.                                                      *)
(***************************************************************************)
undefined == "<undefined>"

\* JS truthiness of a string-or-undefined value.
Truthy(s) == s # undefined /\ s # ""

\* a || b
OrElse(a, b) == IF Truthy(a) THEN a ELSE b

RECURSIVE Str(_)
Str(cs) == IF cs = <<>> THEN "" ELSE cs[1] \o Str(Tail(cs))

\* s.startsWith(p), s.endsWith(p) on text
StartsWith(s, p) == Len(s) >= Len(p) /\ SubSeq(s, 1, Len(p)) = p
EndsWith(s, p) == Len(s) >= Len(p) /\ SubSeq(s, Len(s) - Len(p) + 1, Len(s)) = p

\* s.replace(/c/g, d) on text, for a one-character pattern
ReplaceAll(s, c, d) == [k \in 1..Len(s) |-> IF s[k] = c THEN d ELSE s[k]]

\* A JS number, kept as its canonical decimal text (what String(n) yields).
NumberValue(repr) == [type |-> "number", text |-> repr]
StringValue(s) == [type |-> "string", text |-> s]

\* String(observationValue)
StringOf(v) == v.text

(***************************************************************************)
(* fhir-mapper.ts                                                          *)
(***************************************************************************)
FHIR_IDENTIFIER_SYSTEM == "urn:fhir-pipeline:patient-id"
FHIR_OBSERVATION_IDENTIFIER_SYSTEM == "urn:fhir-pipeline:observation-id"

LOINC_CODES ==
    [blood_pressure_systolic |-> [code |-> "8480-6", display |-> "Systolic blood pressure"],
     blood_pressure_diastolic |-> [code |-> "8462-4", display |-> "Diastolic blood pressure"],
     heart_rate |-> [code |-> "8867-4", display |-> "Heart rate"],
     body_temperature |-> [code |-> "8310-5", display |-> "Body temperature"],
     blood_glucose |-> [code |-> "2339-0", display |-> "Glucose [Mass/volume] in Blood"],
     body_weight |-> [code |-> "29463-7", display |-> "Body weight"],
     oxygen_saturation |-> [code |-> "2708-6", display |-> "Oxygen saturation in Arterial blood"]]

mapPatientToFHIR(patient) ==
    LET telecom ==
            (IF Truthy(patient.phone)
             THEN <<[system |-> "phone", value |-> patient.phone, use |-> "home"]>>
             ELSE <<>>)
            \o
            (IF Truthy(patient.email)
             THEN <<[system |-> "email", value |-> patient.email, use |-> undefined]>>
             ELSE <<>>)
        hasAddress ==
            \/ Truthy(patient.addressLine) \/ Truthy(patient.city)
            \/ Truthy(patient.state) \/ Truthy(patient.postalCode)
        fhirPatient ==
            [resourceType |-> "Patient",
             identifier |-> <<[system |-> FHIR_IDENTIFIER_SYSTEM, value |-> patient.patientId]>>,
             name |-> <<[use |-> "official", family |-> patient.lastName,
                         given |-> <<patient.firstName>>]>>,
             gender |-> patient.gender,
             birthDate |-> patient.birthDate]
    IN  fhirPatient
        @@ (IF Len(telecom) > 0 THEN [telecom |-> telecom] ELSE [n \in {} |-> n])
        @@ (IF hasAddress
            THEN [address |-> <<[use |-> "home",
                                 line |-> IF Truthy(patient.addressLine)
                                          THEN <<patient.addressLine>> ELSE undefined,
                                 city |-> patient.city,
                                 state |-> patient.state,
                                 postalCode |-> patient.postalCode,
                                 country |-> "US"]>>]
            ELSE [n \in {} |-> n])

generateObservationId(observation) ==
    observation.patientId \o ":" \o Str(observation.observationType) \o ":"
        \o observation.observationDate \o ":" \o StringOf(observation.observationValue)

\* A mapper that also writes the text of a numeric value as valueString.
mapObservationToFHIRBothValues(observation, patientReference) ==
    LET tag == Str(observation.observationType)
        known == tag \in DOMAIN LOINC_CODES
        fhirObservation ==
            [resourceType |-> "Observation",
             identifier |-> <<[system |-> FHIR_OBSERVATION_IDENTIFIER_SYSTEM,
                               value |-> generateObservationId(observation)]>>,
             status |-> "final",
             code |-> [coding |-> IF known
                                  THEN <<[system |-> "http://loinc.org",
                                          code |-> LOINC_CODES[tag].code,
                                          display |-> LOINC_CODES[tag].display]>>
                                  ELSE undefined,
                       text |-> Str(ReplaceAll(observation.observationType, "_", " "))],
             subject |-> [reference |-> patientReference],
             effectiveDateTime |-> observation.observationDate]
    IN  IF observation.observationValue.type = "number"
        THEN fhirObservation
             @@ [valueQuantity |-> [value |-> observation.observationValue,
                                    unit |-> observation.observationUnit,
                                    system |-> "http://unitsofmeasure.org",
                                    code |-> observation.observationUnit],
                 valueString |-> observation.observationValue.text]
        ELSE fhirObservation
             @@ [valueString |-> observation.observationValue.text]

mapObservationToFHIR(observation, patientReference) ==
    LET tag == Str(observation.observationType)
        known == tag \in DOMAIN LOINC_CODES
        fhirObservation ==
            [resourceType |-> "Observation",
             identifier |-> <<[system |-> FHIR_OBSERVATION_IDENTIFIER_SYSTEM,
                               value |-> generateObservationId(observation)]>>,
             status |-> "final",
             code |-> [coding |-> IF known
                                  THEN <<[system |-> "http://loinc.org",
                                          code |-> LOINC_CODES[tag].code,
                                          display |-> LOINC_CODES[tag].display]>>
                                  ELSE undefined,
                       text |-> Str(ReplaceAll(observation.observationType, "_", " "))],
             subject |-> [reference |-> patientReference],
             effectiveDateTime |-> observation.observationDate]
    IN  IF observation.observationValue.type = "number"
        THEN fhirObservation
             @@ [valueQuantity |-> [value |-> observation.observationValue,
                                    unit |-> observation.observationUnit,
                                    system |-> "http://unitsofmeasure.org",
                                    code |-> observation.observationUnit]]
        ELSE fhirObservation
             @@ [valueString |-> observation.observationValue.text]

\* uuidv4(): the k-th identity generated in the run named seed.  Identities
\* of different runs, and different k of one run, differ.
uuidv4(seed, k) == seed \o "-" \o ToString(k)

FullUrl(uuid) == "urn:uuid:" \o uuid

\* patientUUIDs after the patient loop: set() overwrites, so an identifier
\* listed twice maps to the identity of its last patient.
patientUUIDs(patients, seed) ==
    [id \in {patients[k].patientId : k \in 1..Len(patients)} |->
        LET last == CHOOSE k \in 1..Len(patients) :
                        /\ patients[k].patientId = id
                        /\ \A j \in (k + 1)..Len(patients) : patients[j].patientId # id
        IN  uuidv4(seed, last)]

\* Mutant: the patient entry carries no ifNoneExist.
PatientIfNoneExistOmitted(patient) == undefined

PatientIfNoneExist(patient) ==
    "identifier=" \o FHIR_IDENTIFIER_SYSTEM \o "|" \o patient.patientId

ObservationIfNoneExist(observation) ==
    "identifier=" \o FHIR_OBSERVATION_IDENTIFIER_SYSTEM \o "|"
        \o generateObservationId(observation)

\* Mutant: the patient directive keyed by the entry's temporary identity.
PatientEntryKeyedByUuid(patient, uuid) ==
    [fullUrl |-> FullUrl(uuid),
     resource |-> mapPatientToFHIR(patient),
     request |-> [method |-> "POST", url |-> "Patient",
                  ifNoneExist |-> "identifier=" \o FHIR_IDENTIFIER_SYSTEM \o "|" \o uuid]]

PatientEntry(patient, uuid) ==
    [fullUrl |-> FullUrl(uuid),
     resource |-> mapPatientToFHIR(patient),
     request |-> [method |-> "POST", url |-> "Patient",
                  ifNoneExist |-> PatientIfNoneExist(patient)]]

\* Mutant: the subject reference is the external patient identifier.
ObservationEntryByExternalId(observation, patientUUID, uuid) ==
    [fullUrl |-> FullUrl(uuid),
     resource |-> mapObservationToFHIR(observation, observation.patientId),
     request |-> [method |-> "POST", url |-> "Observation",
                  ifNoneExist |-> ObservationIfNoneExist(observation)]]

ObservationEntry(observation, patientUUID, uuid) ==
    [fullUrl |-> FullUrl(uuid),
     resource |-> mapObservationToFHIR(observation, FullUrl(patientUUID)),
     request |-> [method |-> "POST", url |-> "Observation",
                  ifNoneExist |-> ObservationIfNoneExist(observation)]]

\* Whether the observation loop keeps the observation (patientUUIDs.get hit).
Resolvable(observation, uuids) == observation.patientId \in DOMAIN uuids

\* Mutant: the observation loop without its `continue`: an unresolved owner
\* yields the reference urn:uuid:undefined.
RECURSIVE ObservationEntriesKeepOrphans(_, _, _, _, _)
ObservationEntriesKeepOrphans(entries, observations, uuids, seed, used) ==
    IF observations = <<>> THEN entries
    ELSE LET observation == Head(observations)
             patientUUID == IF Resolvable(observation, uuids)
                            THEN uuids[observation.patientId] ELSE "undefined"
         IN  ObservationEntriesKeepOrphans(
                 Append(entries,
                        ObservationEntry(observation, patientUUID, uuidv4(seed, used + 1))),
                 Tail(observations), uuids, seed, used + 1)

\* Mutant: the observation loop with unshift() in place of push().
RECURSIVE ObservationEntriesUnshift(_, _, _, _, _)
ObservationEntriesUnshift(entries, observations, uuids, seed, used) ==
    IF observations = <<>> THEN entries
    ELSE LET observation == Head(observations)
         IN  IF ~Resolvable(observation, uuids)
             THEN ObservationEntriesUnshift(entries, Tail(observations), uuids, seed, used)
             ELSE ObservationEntriesUnshift(
                      <<ObservationEntry(observation, uuids[observation.patientId],
                                         uuidv4(seed, used + 1))>> \o entries,
                      Tail(observations), uuids, seed, used + 1)

\* The observation loop: entries so far, observations left, identities used.
RECURSIVE ObservationEntries(_, _, _, _, _)
ObservationEntries(entries, observations, uuids, seed, used) ==
    IF observations = <<>> THEN entries
    ELSE LET observation == Head(observations)
         IN  IF ~Resolvable(observation, uuids)
             THEN ObservationEntries(entries, Tail(observations), uuids, seed, used)
             ELSE ObservationEntries(
                      Append(entries,
                             ObservationEntry(observation, uuids[observation.patientId],
                                              uuidv4(seed, used + 1))),
                      Tail(observations), uuids, seed, used + 1)

\* Mutant: the patient loop skips a patient whose identifier it has seen.
createFHIRBundleDedupPatients(d, seed) ==
    LET firsts == SelectSeq([k \in 1..Len(d.patients) |-> k],
                            LAMBDA k : \A j \in 1..(k - 1) :
                                d.patients[j].patientId # d.patients[k].patientId)
        patientEntries ==
            [n \in 1..Len(firsts) |-> PatientEntry(d.patients[firsts[n]], uuidv4(seed, n))]
        uuids == [id \in {d.patients[k].patientId : k \in 1..Len(d.patients)} |->
                     uuidv4(seed, CHOOSE n \in 1..Len(firsts) :
                                      d.patients[firsts[n]].patientId = id)]
    IN  [resourceType |-> "Bundle",
         type |-> "transaction",
         entry |-> ObservationEntries(patientEntries, d.observations, uuids, seed,
                                      Len(firsts))]

createFHIRBundle(d, seed) ==
    LET patientEntries ==
            [k \in 1..Len(d.patients) |-> PatientEntry(d.patients[k], uuidv4(seed, k))]
    IN  [resourceType |-> "Bundle",
         type |-> "transaction",
         entry |-> ObservationEntries(patientEntries, d.observations,
                                      patientUUIDs(d.patients, seed), seed,
                                      Len(d.patients))]

\* ParsedData with nothing in it
NoData == [patients |-> <<>>, observations |-> <<>>]

(***************************************************************************)
(* Text (character sequences) as the parsers and the classifier use it.    *)
(***************************************************************************)
undefinedText == <<undefined>>

TruthyText(s) == s # undefinedText /\ s # <<>>

OrElseText(a, b) == IF TruthyText(a) THEN a ELSE b

\* Str of a text that may be undefined
StrOpt(cs) == IF cs = undefinedText THEN undefined ELSE Str(cs)

Whitespace == {" ", "\t", "\r", "\n"}

RECURSIVE TrimStart(_)
TrimStart(s) == IF s # <<>> /\ s[1] \in Whitespace THEN TrimStart(Tail(s)) ELSE s

RECURSIVE TrimEnd(_)
TrimEnd(s) ==
    IF s # <<>> /\ s[Len(s)] \in Whitespace THEN TrimEnd(SubSeq(s, 1, Len(s) - 1)) ELSE s

\* s.trim()
Trim(s) == TrimEnd(TrimStart(s))

LowerOf == ("A" :> "a") @@ ("B" :> "b") @@ ("C" :> "c") @@ ("D" :> "d") @@ ("E" :> "e") @@ ("F" :> "f") @@ ("G" :> "g") @@ ("H" :> "h") @@ ("I" :> "i") @@ ("J" :> "j") @@ ("K" :> "k") @@ ("L" :> "l") @@ ("M" :> "m") @@ ("N" :> "n") @@ ("O" :> "o") @@ ("P" :> "p") @@ ("Q" :> "q") @@ ("R" :> "r") @@ ("S" :> "s") @@ ("T" :> "t") @@ ("U" :> "u") @@ ("V" :> "v") @@ ("W" :> "w") @@ ("X" :> "x") @@ ("Y" :> "y") @@ ("Z" :> "z")
UpperOf == ("a" :> "A") @@ ("b" :> "B") @@ ("c" :> "C") @@ ("d" :> "D") @@ ("e" :> "E") @@ ("f" :> "F") @@ ("g" :> "G") @@ ("h" :> "H") @@ ("i" :> "I") @@ ("j" :> "J") @@ ("k" :> "K") @@ ("l" :> "L") @@ ("m" :> "M") @@ ("n" :> "N") @@ ("o" :> "O") @@ ("p" :> "P") @@ ("q" :> "Q") @@ ("r" :> "R") @@ ("s" :> "S") @@ ("t" :> "T") @@ ("u" :> "U") @@ ("v" :> "V") @@ ("w" :> "W") @@ ("x" :> "X") @@ ("y" :> "Y") @@ ("z" :> "Z")

\* s.toLowerCase(), s.toUpperCase()
ToLowerCase(s) == [k \in 1..Len(s) |-> IF s[k] \in DOMAIN LowerOf THEN LowerOf[s[k]] ELSE s[k]]
ToUpperCase(s) == [k \in 1..Len(s) |-> IF s[k] \in DOMAIN UpperOf THEN UpperOf[s[k]] ELSE s[k]]

\* s.split(sep) for a one-character separator: always at least one part.
RECURSIVE SplitFrom(_, _, _, _)
SplitFrom(s, sep, parts, current) ==
    IF s = <<>> THEN Append(parts, current)
    ELSE IF s[1] = sep THEN SplitFrom(Tail(s), sep, Append(parts, current), <<>>)
    ELSE SplitFrom(Tail(s), sep, parts, Append(current, s[1]))

Split(s, sep) == SplitFrom(s, sep, <<>>, <<>>)

\* parts[k] of a JS array (0-based), undefined past its end
At(parts, k) == IF k + 1 <= Len(parts) THEN parts[k + 1] ELSE undefinedText

DigitChars == <<"0", "1", "2", "3", "4", "5", "6", "7", "8", "9">>
IsDigit(c) == \E d \in 1..10 : DigitChars[d] = c

AllDigits(s) == \A k \in 1..Len(s) : IsDigit(s[k])

RECURSIVE StripLeadingZeros(_)
StripLeadingZeros(s) ==
    IF Len(s) > 1 /\ s[1] = "0" THEN StripLeadingZeros(Tail(s)) ELSE s

RECURSIVE StripTrailingZeros(_)
StripTrailingZeros(s) ==
    IF s # <<>> /\ s[Len(s)] = "0" THEN StripTrailingZeros(SubSeq(s, 1, Len(s) - 1)) ELSE s

\* Number(s) for decimal literals: [nan, text], text being String(Number(s)).
\* Blank text is 0; a sign, digits and one optional fraction are a number;
\* anything else is NaN.  (Exponents, hex and Infinity are not modelled.)
JsNumber(s) ==
    LET t == Trim(s)
        signed == t # <<>> /\ t[1] \in {"+", "-"}
        negative == t # <<>> /\ t[1] = "-"
        body == IF signed THEN Tail(t) ELSE t
        parts == Split(body, ".")
        whole == parts[1]
        frac == IF Len(parts) = 2 THEN parts[2] ELSE <<>>
        wellFormed == /\ Len(parts) <= 2
                      /\ AllDigits(whole) /\ AllDigits(frac)
                      /\ Len(whole) + Len(frac) > 0
        w == StripLeadingZeros(IF whole = <<>> THEN <<"0">> ELSE whole)
        f == StripTrailingZeros(frac)
        magnitude == IF f = <<>> THEN w ELSE w \o <<".">> \o f
        zero == magnitude = <<"0">>
    IN  IF t = <<>> THEN [nan |-> FALSE, text |-> "0"]
        ELSE IF ~wellFormed THEN [nan |-> TRUE, text |-> "NaN"]
        ELSE [nan |-> FALSE,
              text |-> Str(IF negative /\ ~zero THEN <<"-">> \o magnitude ELSE magnitude)]

\* isNaN(Number(raw)) ? raw : Number(raw)
CoerceValue(raw) ==
    IF JsNumber(raw).nan THEN StringValue(Str(raw)) ELSE NumberValue(JsNumber(raw).text)

(***************************************************************************)
(* The clock.  Day 1 is 2024-01-15.  A clock reading is [day, ms, tick]:    *)
(* the day, the milliseconds Date.now() shows within it, and whether the   *)
(* millisecond count moves on between two messages of one parse.           *)
(***************************************************************************)
TwoDigits(n) == <<DigitChars[(n \div 10) + 1], DigitChars[(n % 10) + 1]>>

DayOfMonth(day) == 14 + day

\* new Date().toISOString().split('T')[0]
IsoDate(day) == "2024-01-" \o Str(TwoDigits(DayOfMonth(day)))

\* new Date().toISOString().replace(/[-:]/g, '').split('.')[0]
CompactTimestamp(day) ==
    <<"2","0","2","4">> \o <<"0","1">> \o TwoDigits(DayOfMonth(day)) \o <<"T","0","0","0","0","0","0">>

Reading(day, tick) == [day |-> day, ms |-> 0, tick |-> tick]

\* The reading one message later in the same parse.
Later(clock) == IF clock.tick THEN [clock EXCEPT !.ms = @ + 1] ELSE clock

ThreeDigits(n) == <<DigitChars[(n \div 100) + 1]>> \o TwoDigits(n % 100)

\* Date.now()
DateNow(clock) ==
    ToString(1705276800 + 86400 * (clock.day - 1)) \o Str(ThreeDigits(clock.ms))

(***************************************************************************)
(* GCSClient.getFileType / shouldProcess (format classifier)               *)
(***************************************************************************)
\* A classifier that ignores the case of the path.
getFileTypeAnyCase(fileName) ==
    IF StartsWith(ToLowerCase(fileName), <<"c","s","v","-","e","h","r","/">>) THEN "csv"
    ELSE IF StartsWith(ToLowerCase(fileName), <<"h","l","7","v","2","/">>) THEN "hl7v2"
    ELSE IF StartsWith(ToLowerCase(fileName), <<"s","y","n","t","h","e","a","/">>) THEN "synthea"
    ELSE "unknown"

getFileType(fileName) ==
    IF StartsWith(fileName, <<"c","s","v","-","e","h","r","/">>) THEN "csv"
    ELSE IF StartsWith(fileName, <<"h","l","7","v","2","/">>) THEN "hl7v2"
    ELSE IF StartsWith(fileName, <<"s","y","n","t","h","e","a","/">>) THEN "synthea"
    ELSE "unknown"

shouldProcess(fileName) ==
    IF EndsWith(fileName, <<".","g","i","t","k","e","e","p">>) THEN FALSE
    ELSE IF StartsWith(fileName, <<"p","r","o","c","e","s","s","e","d","/">>) THEN FALSE
    ELSE getFileType(fileName) # "unknown"

(***************************************************************************)
(* csv-parser.ts.  csv-parse (external) turns the file text into records   *)
(* or throws; a CSV file's content is given as what csv-parse makes of it: *)
(* [malformed, rows], each row keyed by the header's column names.         *)
(***************************************************************************)
\* A normalizer that compares the trimmed text as it is written.
normalizeGenderExact(gender) ==
    LET normalized == Trim(gender)
    IN  IF normalized = <<"m","a","l","e">> \/ normalized = <<"m">> THEN "male"
        ELSE IF normalized = <<"f","e","m","a","l","e">> \/ normalized = <<"f">> THEN "female"
        ELSE IF normalized = <<"o","t","h","e","r">> \/ normalized = <<"o">> THEN "other"
        ELSE "unknown"

normalizeGenderCSV(gender) ==
    LET normalized == Trim(ToLowerCase(gender))
    IN  IF normalized = <<"m","a","l","e">> \/ normalized = <<"m">> THEN "male"
        ELSE IF normalized = <<"f","e","m","a","l","e">> \/ normalized = <<"f">> THEN "female"
        ELSE IF normalized = <<"o","t","h","e","r">> \/ normalized = <<"o">> THEN "other"
        ELSE "unknown"

HasPatient(patientsMap, id) == \E k \in 1..Len(patientsMap) : patientsMap[k].patientId = id

PatientOfRow(row) ==
    [patientId |-> row.patient_id, firstName |-> row.first_name,
     lastName |-> row.last_name, birthDate |-> row.birth_date,
     gender |-> normalizeGenderCSV(row.gender),
     addressLine |-> row.address_line, city |-> row.city, state |-> row.state,
     postalCode |-> row.postal_code, phone |-> row.phone, email |-> row.email]

\* A guard that takes a row with a type or a value as an observation.
RowHasTypeOrValue(row) ==
    TruthyText(row.observation_type) \/ TruthyText(row.observation_value)

RowHasObservation(row) ==
    TruthyText(row.observation_type) /\ TruthyText(row.observation_value)

ObservationOfRow(row, day) ==
    [patientId |-> row.patient_id,
     observationType |-> row.observation_type,
     observationValue |-> CoerceValue(row.observation_value),
     observationUnit |-> OrElse(row.observation_unit, ""),
     observationDate |-> OrElse(row.observation_date, IsoDate(day))]

\* A row loop that sets the patient of every row, so that the last row of
\* an identifier overwrites the fields of the first.
RECURSIVE CSVRowsLastWins(_, _, _, _)
CSVRowsLastWins(rows, patientsMap, observations, day) ==
    IF rows = <<>> THEN [patients |-> patientsMap, observations |-> observations]
    ELSE LET row == Head(rows)
         IN  CSVRowsLastWins(
                 Tail(rows),
                 IF HasPatient(patientsMap, row.patient_id)
                 THEN [k \in 1..Len(patientsMap) |->
                          IF patientsMap[k].patientId = row.patient_id
                          THEN PatientOfRow(row) ELSE patientsMap[k]]
                 ELSE Append(patientsMap, PatientOfRow(row)),
                 IF RowHasObservation(row)
                 THEN Append(observations, ObservationOfRow(row, day))
                 ELSE observations,
                 day)

\* The row loop: rows left, patientsMap (insertion order), observations.
RECURSIVE CSVRows(_, _, _, _)
CSVRows(rows, patientsMap, observations, day) ==
    IF rows = <<>> THEN [patients |-> patientsMap, observations |-> observations]
    ELSE LET row == Head(rows)
         IN  CSVRows(Tail(rows),
                     IF HasPatient(patientsMap, row.patient_id) THEN patientsMap
                     ELSE Append(patientsMap, PatientOfRow(row)),
                     IF RowHasObservation(row)
                     THEN Append(observations, ObservationOfRow(row, day))
                     ELSE observations,
                     day)

\* parseCSV: [ok, data]; ok = FALSE when parse() or gender.toLowerCase() throws.
parseCSV(content, day) ==
    IF content.malformed THEN [ok |-> FALSE, data |-> NoData]
    ELSE IF \E k \in 1..Len(content.rows) : content.rows[k].gender = undefinedText
    THEN [ok |-> FALSE, data |-> NoData]
    ELSE [ok |-> TRUE, data |-> CSVRows(content.rows, <<>>, <<>>, day)]

(***************************************************************************)
(* hl7v2-parser.ts.  An HL7v2 file's content is its lines,                 *)
(* content.split('\n'), each a text.                                       *)
(***************************************************************************)
OBX_CODE_MAP ==
    ("8480-6" :> <<"b","l","o","o","d","_","p","r","e","s","s","u","r","e","_","s","y","s","t","o","l","i","c">>)
    @@ ("8462-4" :> <<"b","l","o","o","d","_","p","r","e","s","s","u","r","e","_","d","i","a","s","t","o","l","i","c">>)
    @@ ("8867-4" :> <<"h","e","a","r","t","_","r","a","t","e">>)
    @@ ("8310-5" :> <<"b","o","d","y","_","t","e","m","p","e","r","a","t","u","r","e">>)
    @@ ("2339-0" :> <<"b","l","o","o","d","_","g","l","u","c","o","s","e">>)
    @@ ("29463-7" :> <<"b","o","d","y","_","w","e","i","g","h","t">>)
    @@ ("2708-6" :> <<"o","x","y","g","e","n","_","s","a","t","u","r","a","t","i","o","n">>)

parseHL7Segment(line) ==
    LET parts == Split(line, "|")
    IN  [type |-> parts[1], fields |-> Tail(parts)]

parseHL7Message(lines) ==
    LET kept == SelectSeq(lines, LAMBDA line : Len(Trim(line)) > 0)
    IN  [segments |-> [k \in 1..Len(kept) |-> parseHL7Segment(kept[k])]]

\* The line loop of splitMessages: lines left, messages, currentMessage.
RECURSIVE SplitLines(_, _, _)
SplitLines(lines, messages, currentMessage) ==
    IF lines = <<>>
    THEN IF Len(currentMessage) > 0 THEN Append(messages, currentMessage) ELSE messages
    ELSE LET line == Head(lines)
         IN  IF StartsWith(line, <<"M","S","H","|">>)
             THEN SplitLines(Tail(lines),
                             IF Len(currentMessage) > 0
                             THEN Append(messages, currentMessage) ELSE messages,
                             <<line>>)
             ELSE IF Trim(line) # <<>>
             THEN SplitLines(Tail(lines), messages, Append(currentMessage, line))
             ELSE SplitLines(Tail(lines), messages, currentMessage)

splitMessages(lines) == SplitLines(lines, <<>>, <<>>)

normalizeGenderHL7(gender) ==
    LET normalized == Trim(ToUpperCase(gender))
    IN  IF normalized = <<"M">> \/ normalized = <<"M","A","L","E">> THEN "male"
        ELSE IF normalized = <<"F">> \/ normalized = <<"F","E","M","A","L","E">> THEN "female"
        ELSE IF normalized = <<"O">> \/ normalized = <<"O","T","H","E","R">> THEN "other"
        ELSE "unknown"

parseHL7Date(hl7Date) ==
    IF Len(hl7Date) >= 8
    THEN SubSeq(hl7Date, 1, 4) \o <<"-">> \o SubSeq(hl7Date, 5, 6) \o <<"-">>
             \o SubSeq(hl7Date, 7, 8)
    ELSE hl7Date

\* A PID extraction that leaves an absent name component empty and an absent
\* address component or phone as the empty string.
extractPatientFromPIDEmpty(pid, clock) ==
    LET idField == OrElseText(At(pid.fields, 2), <<>>)
        idPart == At(Split(idField, "^"), 0)
        patientId == IF TruthyText(idPart) THEN Str(idPart) ELSE "HL7-" \o DateNow(clock)
        nameParts == Split(OrElseText(At(pid.fields, 4), <<>>), "^")
        addressParts == Split(OrElseText(At(pid.fields, 10), <<>>), "^")
        phoneField == OrElseText(At(pid.fields, 12), <<>>)
    IN  [patientId |-> patientId,
         firstName |-> OrElse(StrOpt(At(nameParts, 1)), ""),
         lastName |-> OrElse(StrOpt(At(nameParts, 0)), ""),
         birthDate |-> Str(parseHL7Date(OrElseText(At(pid.fields, 6), <<>>))),
         gender |-> normalizeGenderHL7(OrElseText(At(pid.fields, 7), <<>>)),
         addressLine |-> OrElse(StrOpt(At(addressParts, 0)), ""),
         city |-> OrElse(StrOpt(At(addressParts, 2)), ""),
         state |-> OrElse(StrOpt(At(addressParts, 3)), ""),
         postalCode |-> OrElse(StrOpt(At(addressParts, 4)), ""),
         phone |-> OrElse(StrOpt(At(Split(phoneField, "^"), 0)), ""),
         email |-> undefined]

extractPatientFromPID(pid, clock) ==
    LET idField == OrElseText(At(pid.fields, 2), <<>>)
        idPart == At(Split(idField, "^"), 0)
        patientId == IF TruthyText(idPart) THEN Str(idPart) ELSE "HL7-" \o DateNow(clock)
        nameParts == Split(OrElseText(At(pid.fields, 4), <<>>), "^")
        lastName == OrElse(StrOpt(At(nameParts, 0)), "Unknown")
        firstName == OrElse(StrOpt(At(nameParts, 1)), "Unknown")
        birthDate == Str(parseHL7Date(OrElseText(At(pid.fields, 6), <<>>)))
        gender == normalizeGenderHL7(OrElseText(At(pid.fields, 7), <<>>))
        addressParts == Split(OrElseText(At(pid.fields, 10), <<>>), "^")
        phoneField == OrElseText(At(pid.fields, 12), <<>>)
        phone == OrElse(StrOpt(At(Split(phoneField, "^"), 0)), undefined)
    IN  [patientId |-> patientId, firstName |-> firstName, lastName |-> lastName,
         birthDate |-> birthDate, gender |-> gender,
         addressLine |-> OrElse(StrOpt(At(addressParts, 0)), undefined),
         city |-> OrElse(StrOpt(At(addressParts, 2)), undefined),
         state |-> OrElse(StrOpt(At(addressParts, 3)), undefined),
         postalCode |-> OrElse(StrOpt(At(addressParts, 4)), undefined),
         phone |-> phone, email |-> undefined]

IsAlphanumeric(c) == c \in DOMAIN LowerOf \/ c \in DOMAIN UpperOf \/ IsDigit(c)

extractObservationFromOBX(obx, patientId, mshTimestamp) ==
    LET identifierParts == Split(OrElseText(At(obx.fields, 2), <<>>), "^")
        loincCode == OrElseText(At(identifierParts, 0), <<>>)
        observationType ==
            IF Str(loincCode) \in DOMAIN OBX_CODE_MAP THEN OBX_CODE_MAP[Str(loincCode)]
            ELSE [k \in 1..Len(loincCode) |->
                      IF IsAlphanumeric(loincCode[k]) THEN loincCode[k] ELSE "_"]
        valueRaw == OrElseText(At(obx.fields, 4), <<>>)
        unitsField == OrElseText(At(obx.fields, 5), <<>>)
        dateField == OrElseText(At(obx.fields, 13), mshTimestamp)
    IN  [patientId |-> patientId,
         observationType |-> observationType,
         observationValue |-> CoerceValue(valueRaw),
         observationUnit |-> OrElse(StrOpt(At(Split(unitsField, "^"), 0)), ""),
         observationDate |-> Str(parseHL7Date(dateField))]

SegmentsOfType(message, type) == SelectSeq(message.segments, LAMBDA seg : seg.type = type)

\* A message loop that keeps the results of a message without a PID segment,
\* attributed to no patient.
RECURSIVE HL7MessagesKeepResults(_, _, _, _)
HL7MessagesKeepResults(messageStrings, patientsMap, observations, clock) ==
    IF messageStrings = <<>> THEN [patients |-> patientsMap, observations |-> observations]
    ELSE LET message == parseHL7Message(Head(messageStrings))
             mshs == SegmentsOfType(message, <<"M","S","H">>)
             mshTimestamp ==
                 IF mshs # <<>>
                 THEN OrElseText(At(mshs[1].fields, 5), CompactTimestamp(clock.day))
                 ELSE CompactTimestamp(clock.day)
             pids == SegmentsOfType(message, <<"P","I","D">>)
         IN  IF pids = <<>>
             THEN HL7MessagesKeepResults(
                      Tail(messageStrings), patientsMap,
                      observations \o
                          [k \in 1..Len(SegmentsOfType(message, <<"O","B","X">>)) |->
                              extractObservationFromOBX(
                                  SegmentsOfType(message, <<"O","B","X">>)[k],
                                  "", mshTimestamp)],
                      Later(clock))
             ELSE LET patient == extractPatientFromPID(pids[1], clock)
                      obxSegments == SegmentsOfType(message, <<"O","B","X">>)
                  IN  HL7MessagesKeepResults(
                          Tail(messageStrings),
                          IF HasPatient(patientsMap, patient.patientId) THEN patientsMap
                          ELSE Append(patientsMap, patient),
                          observations \o
                              [k \in 1..Len(obxSegments) |->
                                  extractObservationFromOBX(obxSegments[k],
                                                            patient.patientId,
                                                            mshTimestamp)],
                          Later(clock))

\* A message loop that takes no results from a message whose patient an
\* earlier message has registered.
RECURSIVE HL7MessagesNewPatientsOnly(_, _, _, _)
HL7MessagesNewPatientsOnly(messageStrings, patientsMap, observations, clock) ==
    IF messageStrings = <<>> THEN [patients |-> patientsMap, observations |-> observations]
    ELSE LET message == parseHL7Message(Head(messageStrings))
             mshs == SegmentsOfType(message, <<"M","S","H">>)
             mshTimestamp ==
                 IF mshs # <<>>
                 THEN OrElseText(At(mshs[1].fields, 5), CompactTimestamp(clock.day))
                 ELSE CompactTimestamp(clock.day)
             pids == SegmentsOfType(message, <<"P","I","D">>)
         IN  IF pids = <<>>
             THEN HL7MessagesNewPatientsOnly(Tail(messageStrings), patientsMap,
                                             observations, Later(clock))
             ELSE LET patient == extractPatientFromPID(pids[1], clock)
                      obxSegments == SegmentsOfType(message, <<"O","B","X">>)
                  IN  IF HasPatient(patientsMap, patient.patientId)
                      THEN HL7MessagesNewPatientsOnly(Tail(messageStrings), patientsMap,
                                                      observations, Later(clock))
                      ELSE HL7MessagesNewPatientsOnly(
                               Tail(messageStrings),
                               Append(patientsMap, patient),
                               observations \o
                                   [k \in 1..Len(obxSegments) |->
                                       extractObservationFromOBX(obxSegments[k],
                                                                 patient.patientId,
                                                                 mshTimestamp)],
                               Later(clock))

\* A message loop that attributes a message's observations to the whole
\* PID-3 field instead of its first component.
RECURSIVE HL7MessagesWholeIdField(_, _, _, _)
HL7MessagesWholeIdField(messageStrings, patientsMap, observations, clock) ==
    IF messageStrings = <<>> THEN [patients |-> patientsMap, observations |-> observations]
    ELSE LET message == parseHL7Message(Head(messageStrings))
             mshs == SegmentsOfType(message, <<"M","S","H">>)
             mshTimestamp ==
                 IF mshs # <<>>
                 THEN OrElseText(At(mshs[1].fields, 5), CompactTimestamp(clock.day))
                 ELSE CompactTimestamp(clock.day)
             pids == SegmentsOfType(message, <<"P","I","D">>)
         IN  IF pids = <<>>
             THEN HL7MessagesWholeIdField(Tail(messageStrings), patientsMap,
                                          observations, Later(clock))
             ELSE LET patient == extractPatientFromPID(pids[1], clock)
                      obxSegments == SegmentsOfType(message, <<"O","B","X">>)
                  IN  HL7MessagesWholeIdField(
                          Tail(messageStrings),
                          IF HasPatient(patientsMap, patient.patientId) THEN patientsMap
                          ELSE Append(patientsMap, patient),
                          observations \o
                              [k \in 1..Len(obxSegments) |->
                                  extractObservationFromOBX(
                                      obxSegments[k],
                                      Str(OrElseText(At(pids[1].fields, 2), <<>>)),
                                      mshTimestamp)],
                          Later(clock))

\* The message loop of parseHL7v2: messages left, patientsMap, observations.
RECURSIVE HL7Messages(_, _, _, _)
HL7Messages(messageStrings, patientsMap, observations, clock) ==
    IF messageStrings = <<>> THEN [patients |-> patientsMap, observations |-> observations]
    ELSE LET message == parseHL7Message(Head(messageStrings))
             mshs == SegmentsOfType(message, <<"M","S","H">>)
             mshTimestamp ==
                 IF mshs # <<>>
                 THEN OrElseText(At(mshs[1].fields, 5), CompactTimestamp(clock.day))
                 ELSE CompactTimestamp(clock.day)
             pids == SegmentsOfType(message, <<"P","I","D">>)
         IN  IF pids = <<>>
             THEN HL7Messages(Tail(messageStrings), patientsMap, observations, Later(clock))
             ELSE LET patient == extractPatientFromPID(pids[1], clock)
                      obxSegments == SegmentsOfType(message, <<"O","B","X">>)
                  IN  HL7Messages(
                          Tail(messageStrings),
                          IF HasPatient(patientsMap, patient.patientId) THEN patientsMap
                          ELSE Append(patientsMap, patient),
                          observations \o
                              [k \in 1..Len(obxSegments) |->
                                  extractObservationFromOBX(obxSegments[k],
                                                            patient.patientId,
                                                            mshTimestamp)],
                          Later(clock))

parseHL7v2(content, clock) == HL7Messages(splitMessages(content), <<>>, <<>>, clock)

(***************************************************************************)
(* Inputs of the bundle-builder runs.                                      *)
(***************************************************************************)
Patient(id, first, last, phone, city) ==
    [patientId |-> id, firstName |-> first, lastName |-> last,
     birthDate |-> "1990-01-15", gender |-> "male",
     addressLine |-> undefined, city |-> city, state |-> undefined,
     postalCode |-> undefined, phone |-> phone, email |-> undefined]

Observation(id, type, value, unit, date) ==
    [patientId |-> id, observationType |-> type, observationValue |-> value,
     observationUnit |-> unit, observationDate |-> date]

heart_rate == <<"h","e","a","r","t","_","r","a","t","e">>
blood_type == <<"b","l","o","o","d","_","t","y","p","e">>

SamplePatients ==
    {Patient("P001", "John", "Doe", "555-0100", undefined),
     Patient("P001", "Johnny", "Doe", undefined, "Springfield"),
     Patient("P002", "Jane", "Smith", undefined, undefined),
     Patient("72", "Ann", "Lee", undefined, undefined)}

SampleObservations ==
    {Observation("P001", heart_rate, NumberValue("72"), "bpm", "2024-01-15"),
     Observation("P001", heart_rate, StringValue("72"), "", "2024-01-15"),
     Observation("P002", blood_type, StringValue("A+"), "", "2024-01-15"),
     Observation("P999", heart_rate, NumberValue("80"), "bpm", "2024-01-15"),
     Observation("urn:uuid:1-1", heart_rate, NumberValue("80"), "bpm", "2024-01-16")}

SeqsUpTo(S, n) == UNION {[1..k -> S] : k \in 0..n}

ParsedDataInputs ==
    [patients : SeqsUpTo(SamplePatients, MaxPatients),
     observations : SeqsUpTo(SampleObservations, MaxObservations)]

(***************************************************************************)
(* Bundle-builder runs: createFHIRBundle called repeatedly on one input.   *)
(***************************************************************************)
InitBundle ==
    /\ now = 1
    /\ store = {}
    /\ inv = <<>>
    /\ data \in ParsedDataInputs
    /\ built = <<>>
    /\ arg = <<>>
    /\ out = [done |-> FALSE]

BuildBundle ==
    /\ Len(built) < MaxCalls
    /\ built' = Append(built, createFHIRBundle(data, ToString(Len(built) + 1)))
    /\ UNCHANGED <<now, store, inv, data, arg, out>>

NextBundle == BuildBundle

SpecBundle == InitBundle /\ [][NextBundle]_vars

(***************************************************************************)
(* The landing bucket and the events delivered to the handler.             *)
(***************************************************************************)
LandingBucket == "landing"

CSVRow(id, first, gender, type, value, unit, date) ==
    [patient_id |-> id, first_name |-> first, last_name |-> "Doe",
     birth_date |-> "1990-01-15", gender |-> gender,
     address_line |-> "", city |-> "", state |-> "", postal_code |-> "",
     phone |-> "", email |-> "",
     observation_type |-> type, observation_value |-> value,
     observation_unit |-> unit, observation_date |-> date]

PathA == <<"c","s","v","-","e","h","r","/","a">>
PathB == <<"c","s","v","-","e","h","r","/","b">>
PathNoDate == <<"c","s","v","-","e","h","r","/","n">>
PathMalformed == <<"c","s","v","-","e","h","r","/","x">>
PathHL7 == <<"h","l","7","v","2","/","m">>
PathSynthea == <<"s","y","n","t","h","e","a","/","s">>
PathBadJson == <<"s","y","n","t","h","e","a","/","x">>
PathMissing == <<"c","s","v","-","e","h","r","/","q">>
PathGitkeep == <<"c","s","v","-","e","h","r","/",".","g","i","t","k","e","e","p">>
PathProcessed == <<"p","r","o","c","e","s","s","e","d","/","a">>
PathOtherCase == <<"C","S","V","-","E","H","R","/","a">>

\* A pre-built bundle as a synthea file holds it: no ifNoneExist.
SyntheaBundle ==
    [resourceType |-> "Bundle", type |-> "transaction",
     entry |-> <<[fullUrl |-> "urn:uuid:s-1",
                  resource |-> [resourceType |-> "Patient",
                                identifier |-> <<[system |-> "https://github.com/synthetichealth/synthea",
                                                  value |-> "S1"]>>],
                  request |-> [method |-> "POST", url |-> "Patient",
                               ifNoneExist |-> undefined]]>>]

Files ==
    (PathA :> [malformed |-> FALSE,
               rows |-> <<CSVRow("P001", "John", <<"M">>, heart_rate, <<"7","2">>,
                                 "bpm", "2024-01-10"),
                          CSVRow("P001", "Johnny", <<"m","a","l","e">>, heart_rate,
                                 <<"7","5">>, "bpm", "2024-01-11")>>])
    @@ (PathB :> [malformed |-> FALSE,
                  rows |-> <<CSVRow("P001", "John", <<"M">>, blood_type, <<"A","+">>,
                                    "", "2024-01-10"),
                             CSVRow("P002", "Jane", <<"F">>, <<>>, <<>>, "", "")>>])
    @@ (PathNoDate :> [malformed |-> FALSE,
                       rows |-> <<CSVRow("P003", "Ann", <<"f">>, heart_rate, <<"6","8">>,
                                         "bpm", "")>>])
    @@ (PathMalformed :> [malformed |-> TRUE, rows |-> <<>>])
    @@ (PathHL7 :> <<<<"M","S","H","|","^","~","\\","&","|","A","|","B","|","C","|","D","|","2","0","2","4","0","1","1","0">>,
                     <<"P","I","D","|","1","|","|","P","0","0","4","|","|","R","o","e","^","M","a","x","|","|","1","9","8","0","0","1","0","1","|","M">>,
                     <<"O","B","X","|","1","|","N","M","|","8","8","6","7","-","4","|","|","6","4","|","b","p","m">>>>)
    @@ (PathSynthea :> [valid |-> TRUE, bundle |-> SyntheaBundle])
    @@ (PathBadJson :> [valid |-> FALSE, bundle |-> SyntheaBundle])

\* req.body: bucket/name, data.bucket/data.name, message.data.  message.data is
\* given as what base64-decoding and JSON.parse make of it: json is "object"
\* (with the object's bucket and name), "null", or "invalid" (JSON.parse throws).
NoPair == [bucket |-> undefined, name |-> undefinedText]
NoMessage == [data |-> FALSE, json |-> "invalid", bucket |-> undefined, name |-> undefinedText]

FlatBody(bucket, name) == [bucket |-> bucket, name |-> name, data |-> NoPair, message |-> NoMessage]
NestedBody(bucket, name) ==
    [bucket |-> undefined, name |-> undefinedText,
     data |-> [bucket |-> bucket, name |-> name], message |-> NoMessage]
EnvelopeBody(json, bucket, name) ==
    [bucket |-> undefined, name |-> undefinedText, data |-> NoPair,
     message |-> [data |-> TRUE, json |-> json, bucket |-> bucket, name |-> name]]

\* Events for files whose bundle reaches the store.
StoreEvents ==
    {FlatBody(LandingBucket, PathA), FlatBody(LandingBucket, PathB),
     FlatBody(LandingBucket, PathNoDate), EnvelopeBody("object", LandingBucket, PathHL7),
     NestedBody(LandingBucket, PathSynthea)}

AllEvents ==
    StoreEvents \cup
    {FlatBody(LandingBucket, PathMalformed), FlatBody(LandingBucket, PathBadJson),
     FlatBody(LandingBucket, PathMissing), FlatBody(LandingBucket, PathGitkeep),
     NestedBody(LandingBucket, PathProcessed), NestedBody(LandingBucket, PathOtherCase),
     FlatBody(LandingBucket, <<>>), FlatBody(undefined, PathA),
     NestedBody("", PathA),
     EnvelopeBody("object", undefined, undefinedText),
     EnvelopeBody("object", undefined, PathA),
     EnvelopeBody("object", undefined, PathGitkeep),
     EnvelopeBody("object", LandingBucket, undefinedText),
     EnvelopeBody("invalid", undefined, undefinedText),
     EnvelopeBody("null", undefined, undefinedText),
     FlatBody(undefined, undefinedText)}

(***************************************************************************)
(* index.ts: the CloudEvent handler, app.post('/').                        *)
(***************************************************************************)
Inv == 1..NumInv

NoResponse == [status |-> 0]
NoBundle == [resourceType |-> "Bundle", type |-> "none", entry |-> <<>>]

Idle ==
    [pc |-> "idle", body |-> FlatBody(undefined, undefinedText),
     bucket |-> undefined, fileName |-> undefinedText, fileType |-> "unknown",
     parsedData |-> NoData, bundle |-> NoBundle, result |-> <<>>,
     steps |-> <<>>, raised |-> "none", response |-> NoResponse]

\* A catch block that logs the error and sends nothing.
CaughtSilently(r, stage) == [r EXCEPT !.pc = "done", !.raised = stage]

\* The catch block: whatever was raised, respond 500.
Caught(r, stage) ==
    [r EXCEPT !.pc = "done", !.raised = stage,
              !.response = [status |-> 500, error |-> "Failed to process file"]]

\* Lines 57-74: [kind, bucket, fileName]; kind is "ok", "unknown" (no layout
\* matched) or "throw" (JSON.parse or the property read raised).
Decode(body) ==
    IF Truthy(body.bucket) /\ TruthyText(body.name)
    THEN [kind |-> "ok", bucket |-> body.bucket, fileName |-> body.name]
    ELSE IF Truthy(body.data.bucket) /\ TruthyText(body.data.name)
    THEN [kind |-> "ok", bucket |-> body.data.bucket, fileName |-> body.data.name]
    ELSE IF body.message.data
    THEN IF body.message.json = "object"
         THEN [kind |-> "ok", bucket |-> body.message.bucket, fileName |-> body.message.name]
         ELSE [kind |-> "throw", bucket |-> undefined, fileName |-> undefinedText]
    ELSE [kind |-> "unknown", bucket |-> undefined, fileName |-> undefinedText]

\* Mutant: the handler without the shouldProcess guard of lines 79-83.
StartNoEligibilityCheck(body) ==
    LET d == Decode(body)
        r == [Idle EXCEPT !.body = body]
    IN  IF d.kind = "unknown"
        THEN [r EXCEPT !.pc = "done", !.steps = <<"decode">>,
                       !.response = [status |-> 400, error |-> "Unknown event format"]]
        ELSE IF d.kind = "throw" THEN Caught([r EXCEPT !.steps = <<"decode">>], "decode")
        ELSE LET r2 == [r EXCEPT !.bucket = d.bucket, !.fileName = d.fileName]
             IN  IF d.fileName = undefinedText
                 THEN Caught([r2 EXCEPT !.steps = <<"decode", "classify">>], "classify")
                 ELSE [r2 EXCEPT !.pc = "fetching",
                                 !.fileType = getFileType(d.fileName),
                                 !.steps = <<"decode", "classify", "fetch">>]

\* Lines 48-90: from the request to the call of downloadFile.
Start(body) ==
    LET d == Decode(body)
        r == [Idle EXCEPT !.body = body]
    IN  IF d.kind = "unknown"
        THEN [r EXCEPT !.pc = "done", !.steps = <<"decode">>,
                       !.response = [status |-> 400, error |-> "Unknown event format"]]
        ELSE IF d.kind = "throw" THEN Caught([r EXCEPT !.steps = <<"decode">>], "decode")
        ELSE LET r2 == [r EXCEPT !.bucket = d.bucket, !.fileName = d.fileName]
             IN  IF d.fileName = undefinedText
                 \* shouldProcess(undefined): fileName.endsWith raises a TypeError
                 THEN Caught([r2 EXCEPT !.steps = <<"decode", "classify">>], "classify")
                 ELSE IF ~shouldProcess(d.fileName)
                 THEN [r2 EXCEPT !.pc = "done", !.steps = <<"decode", "classify">>,
                                 !.response = [status |-> 200,
                                               message |-> "Skipped - not a processable file"]]
                 ELSE [r2 EXCEPT !.pc = "fetching",
                                 !.fileType = getFileType(d.fileName),
                                 !.steps = <<"decode", "classify", "fetch">>]

\* gcsClient.downloadFile finds the object
Downloadable(bucket, fileName) == bucket = LandingBucket /\ fileName \in DOMAIN Files

\* Mutant: a CSV file that does not parse is taken as a file without rows.
ParseLenient(fileType, content, clock) ==
    IF fileType = "csv"
    THEN [ok |-> TRUE, data |-> IF content.malformed THEN NoData
                                 ELSE parseCSV(content, clock.day).data]
    ELSE [ok |-> TRUE, data |-> parseHL7v2(content, clock)]

\* Lines 122-126: the parser of the file type.
Parse(fileType, content, clock) ==
    IF fileType = "csv" THEN parseCSV(content, clock.day)
    ELSE [ok |-> TRUE, data |-> parseHL7v2(content, clock)]

\* A handler that turns the entries of a passthrough bundle into conditional
\* creates before it submits them.
ContinueConditional(r, i, content, clock) ==
    IF r.fileType = "synthea"
    THEN IF ~content.valid
         THEN Caught([r EXCEPT !.steps = @ \o <<"parse">>], "parse")
         ELSE [r EXCEPT !.pc = "submitting",
                        !.bundle = [content.bundle EXCEPT !.entry =
                            [k \in 1..Len(content.bundle.entry) |->
                                [content.bundle.entry[k] EXCEPT !.request.ifNoneExist =
                                    "identifier=" \o content.bundle.entry[k].resource.identifier[1].system
                                        \o "|" \o content.bundle.entry[k].resource.identifier[1].value]]],
                        !.steps = @ \o <<"parse", "submit">>]
    ELSE IF r.fileType \in {"csv", "hl7v2"}
    THEN LET parsed == Parse(r.fileType, content, clock)
         IN  IF ~parsed.ok
             THEN Caught([r EXCEPT !.steps = @ \o <<"parse">>], "parse")
             ELSE [r EXCEPT !.pc = "submitting", !.parsedData = parsed.data,
                            !.bundle = createFHIRBundle(parsed.data, ToString(i)),
                            !.steps = @ \o <<"parse", "map", "submit">>]
    ELSE [r EXCEPT !.pc = "done",
                   !.response = [status |-> 400, error |-> "Unknown file type"]]

\* Lines 91-138: from the downloaded content to the call of executeBundle.
Continue(r, i, content, clock) ==
    IF r.fileType = "synthea"
    THEN IF ~content.valid
         THEN Caught([r EXCEPT !.steps = @ \o <<"parse">>], "parse")
         ELSE [r EXCEPT !.pc = "submitting", !.bundle = content.bundle,
                        !.steps = @ \o <<"parse", "submit">>]
    ELSE IF r.fileType \in {"csv", "hl7v2"}
    THEN LET parsed == Parse(r.fileType, content, clock)
         IN  IF ~parsed.ok
             THEN Caught([r EXCEPT !.steps = @ \o <<"parse">>], "parse")
             ELSE [r EXCEPT !.pc = "submitting", !.parsedData = parsed.data,
                            !.bundle = createFHIRBundle(parsed.data, ToString(i)),
                            !.steps = @ \o <<"parse", "map", "submit">>]
    ELSE [r EXCEPT !.pc = "done",
                   !.response = [status |-> 400, error |-> "Unknown file type"]]

StatusCreated == <<"2","0","1"," ","C","r","e","a","t","e","d">>
StatusExists == <<"4","1","2"," ","P","r","e","c","o","n","d","i","t","i","o","n"," ","F","a","i","l","e","d">>

\* result.entry.filter(e => e.response?.status?.startsWith('20')).length
SuccessCount(result) ==
    Cardinality({k \in 1..Len(result) :
                    /\ "response" \in DOMAIN result[k]
                    /\ StartsWith(result[k].response.status, <<"2", "0">>)})

\* Lines 105-118 and 141-156: the response of a submitted bundle.
responseData(r) ==
    LET successCount == SuccessCount(r.result)
        errorCount == Len(r.result) - successCount
    IN  IF r.fileType = "synthea"
        THEN [status |-> 200, message |-> "Synthea bundle processed successfully",
              file |-> r.fileName, bundleEntriesProcessed |-> Len(r.bundle.entry),
              successCount |-> successCount, errorCount |-> errorCount]
        ELSE [status |-> 200, message |-> "File processed successfully",
              file |-> r.fileName,
              patientsCreated |-> Len(r.parsedData.patients),
              observationsCreated |-> Len(r.parsedData.observations),
              bundleEntriesProcessed |-> Len(r.bundle.entry),
              successCount |-> successCount, errorCount |-> errorCount]

(***************************************************************************)
(* The remote FHIR store, as the handler's interface to it describes it:   *)
(* a transaction is applied entry by entry; a create whose ifNoneExist     *)
(* matches a stored resource creates nothing and is answered with a        *)
(* non-success status; any other create stores the resource.               *)
(***************************************************************************)
IdentifierOf(resource) == resource.identifier[1]

\* The search ifNoneExist asks for: identifier=<system>|<value>
Matches(stored, request) ==
    /\ request.ifNoneExist # undefined
    /\ stored.resourceType = request.url
    /\ "identifier=" \o stored.identifier.system \o "|" \o stored.identifier.value
           = request.ifNoneExist

\* The entries left, the store and the replies so far; k numbers the entry.
RECURSIVE ApplyEntries(_, _, _, _, _)
ApplyEntries(entries, st, replies, i, k) ==
    IF entries = <<>> THEN [store |-> st, result |-> replies]
    ELSE LET e == Head(entries)
         IN  IF \E stored \in st : Matches(stored, e.request)
             THEN ApplyEntries(Tail(entries), st,
                               Append(replies, [response |-> [status |-> StatusExists]]),
                               i, k + 1)
             ELSE ApplyEntries(Tail(entries),
                               st \cup {[id |-> <<i, k>>,
                                         resourceType |-> e.resource.resourceType,
                                         identifier |-> IdentifierOf(e.resource)]},
                               Append(replies, [response |-> [status |-> StatusCreated]]),
                               i, k + 1)

ExecuteTransaction(st, bundle, i) == ApplyEntries(bundle.entry, st, <<>>, i, 1)

(***************************************************************************)
(* The handler's steps, one per stretch of code between two awaits.        *)
(***************************************************************************)
Init ==
    /\ now = 1
    /\ store = {}
    /\ inv = [i \in Inv |-> Idle]
    /\ data = NoData
    /\ built = <<>>
    /\ arg = <<>>
    /\ out = [done |-> FALSE]

\* An event is delivered: decode, classify, start the download.  The first
\* invocation takes any event; the others take events that reach the store.
Receive(i) ==
    /\ inv[i].pc = "idle"
    /\ \A j \in 2..(i - 1) : inv[j].pc # "idle"
    /\ \E body \in IF i = 1 THEN AllEvents ELSE StoreEvents :
           inv' = [inv EXCEPT ![i] = Start(body)]
    /\ UNCHANGED <<now, store, data, built, arg, out>>

\* downloadFile returns the content: parse, map, start the submission.
Download(i) ==
    /\ inv[i].pc = "fetching"
    /\ Downloadable(inv[i].bucket, inv[i].fileName)
    /\ \E tick \in BOOLEAN :
           inv' = [inv EXCEPT ![i] = Continue(inv[i], i, Files[inv[i].fileName],
                                              Reading(now, tick))]
    /\ UNCHANGED <<now, store, data, built, arg, out>>

\* downloadFile throws (no such object, no such bucket, transport failure).
DownloadFails(i) ==
    /\ inv[i].pc = "fetching"
    /\ inv' = [inv EXCEPT ![i] = Caught(inv[i], "fetch")]
    /\ UNCHANGED <<now, store, data, built, arg, out>>

\* The store applies the transaction and answers 200 with the replies.
StoreAccepts(i) ==
    /\ inv[i].pc = "submitting"
    /\ LET applied == ExecuteTransaction(store, inv[i].bundle, i)
       IN  /\ store' = applied.store
           /\ inv' = [inv EXCEPT ![i] = [@ EXCEPT !.pc = "submitted",
                                                !.result = applied.result]]
    /\ UNCHANGED <<now, data, built, arg, out>>

\* A handler that submits a rejected transaction a second time.
StoreRejectsRetrying(i) ==
    /\ inv[i].pc = "submitting"
    /\ inv' = [inv EXCEPT ![i] =
                  IF Len(SelectSeq(inv[i].steps, LAMBDA s : s = "submit")) < 2
                  THEN [@ EXCEPT !.steps = @ \o <<"submit">>]
                  ELSE Caught(@, "submit")]
    /\ UNCHANGED <<now, store, data, built, arg, out>>

\* The store rejects the transaction: executeBundle throws.
StoreRejects(i) ==
    /\ inv[i].pc = "submitting"
    /\ inv' = [inv EXCEPT ![i] = Caught(inv[i], "submit")]
    /\ UNCHANGED <<now, store, data, built, arg, out>>

\* executeBundle returns: count the replies and respond.
Report(i) ==
    /\ inv[i].pc = "submitted"
    /\ inv' = [inv EXCEPT ![i] = [@ EXCEPT !.pc = "done",
                                         !.response = responseData(inv[i])]]
    /\ UNCHANGED <<now, store, data, built, arg, out>>

\* A day passes.
Tick ==
    /\ now < MaxDay
    /\ now' = now + 1
    /\ UNCHANGED <<store, inv, data, built, arg, out>>

Next ==
    \/ \E i \in Inv : Receive(i)
    \/ \E i \in Inv : Download(i)
    \/ \E i \in Inv : DownloadFails(i)
    \/ \E i \in Inv : StoreAccepts(i)
    \/ \E i \in Inv : StoreRejects(i)
    \/ \E i \in Inv : Report(i)
    \/ Tick

Spec == Init /\ [][Next]_vars

\* Every awaited promise settles: a pending downloadFile or executeBundle
\* does not stay pending for ever (it returns, or else it throws), and the
\* code after an await runs.
Settles ==
    WF_vars(\E i \in Inv : \/ DownloadFails(i)
                           \/ StoreRejects(i)
                           \/ Report(i))

SpecSettles == Init /\ [][Next]_vars /\ Settles

(***************************************************************************)
(* Properties of the bundle builder (checked under SpecBundle).            *)
(***************************************************************************)
PatientIds(d) == {d.patients[k].patientId : k \in 1..Len(d.patients)}

\* The observations of d whose owner is one of d's patients, in input order.
Survivors(d) == SelectSeq(d.observations, LAMBDA o : o.patientId \in PatientIds(d))

Orphans(d) == {d.observations[j] : j \in 1..Len(d.observations)} \ 
              {o \in {d.observations[j] : j \in 1..Len(d.observations)} :
                   o.patientId \in PatientIds(d)}

IsObservationEntry(e) == e.resource.resourceType = "Observation"
IsPatientEntry(e) == e.resource.resourceType = "Patient"

ObservationEntriesOf(b) == {k \in 1..Len(b.entry) : IsObservationEntry(b.entry[k])}
PatientEntriesOf(b) == {k \in 1..Len(b.entry) : IsPatientEntry(b.entry[k])}

\* The input observations an observation entry can have been mapped from.
SourcesOf(e, d) ==
    {o \in {d.observations[j] : j \in 1..Len(d.observations)} :
        e.resource.identifier[1].value = generateObservationId(o)}

\* C3: an observation whose owning patient identifier is not among the
\* patients of the call never appears in the bundle: no entry carries an
\* orphan's reference or was mapped from an orphan only, and every
\* observation entry was mapped from an observation owned by a patient of
\* the call.
C3_NoOrphanObservation ==
    \A c \in 1..Len(built) :
        \A k \in ObservationEntriesOf(built[c]) :
            LET e == built[c].entry[k]
            IN  /\ \E o \in SourcesOf(e, data) : o.patientId \in PatientIds(data)
                /\ \E p \in PatientEntriesOf(built[c]) :
                       e.resource.subject.reference = built[c].entry[p].fullUrl

C3_Witness ==
    /\ Len(built) >= 1
    /\ Orphans(data) # {}
    /\ Len(Survivors(data)) >= 1
    /\ ObservationEntriesOf(built[1]) # {}

\* C4: each observation entry's subject reference is the fullUrl of a
\* patient entry of the same bundle whose external identifier is the
\* observation's owner; it is never the external identifier itself, and
\* observations of one patient reference the same patient entry.
C4_SubjectIsPatientFullUrl ==
    \A c \in 1..Len(built) :
        LET b == built[c]
        IN  /\ \A k \in ObservationEntriesOf(b) :
                   \E o \in SourcesOf(b.entry[k], data) :
                       /\ \E p \in PatientEntriesOf(b) :
                              /\ b.entry[k].resource.subject.reference = b.entry[p].fullUrl
                              /\ b.entry[p].resource.identifier[1].value = o.patientId
                       /\ b.entry[k].resource.subject.reference # o.patientId
            /\ \A k1, k2 \in ObservationEntriesOf(b) :
                   (\E o1 \in SourcesOf(b.entry[k1], data), o2 \in SourcesOf(b.entry[k2], data) :
                        o1.patientId = o2.patientId)
                   => b.entry[k1].resource.subject.reference
                          = b.entry[k2].resource.subject.reference

C4_Witness ==
    /\ Len(built) >= 1
    /\ Len(data.patients) = 2
    /\ data.patients[1].patientId = data.patients[2].patientId
    /\ Cardinality(ObservationEntriesOf(built[1])) = 2

\* C5: all patient entries precede all observation entries, patient entries
\* are in the order of the input patient list and surviving observation
\* entries in the order of the input observation list.
C5_EntryOrder ==
    \A c \in 1..Len(built) :
        LET b == built[c]
            n == Len(data.patients)
        IN  \A k \in 1..Len(b.entry) :
                IF k <= n
                THEN /\ IsPatientEntry(b.entry[k])
                     /\ b.entry[k].resource = mapPatientToFHIR(data.patients[k])
                ELSE /\ IsObservationEntry(b.entry[k])
                     /\ k - n <= Len(Survivors(data))
                     /\ b.entry[k].resource.identifier[1].value
                            = generateObservationId(Survivors(data)[k - n])

C5_Witness ==
    /\ Len(built) >= 1
    /\ Len(data.patients) = 2
    /\ data.patients[1].patientId # data.patients[2].patientId
    /\ Len(Survivors(data)) = 2
    /\ Survivors(data)[1].patientId # Survivors(data)[2].patientId
    /\ Len(built[1].entry) = 4

\* C6: the number of entries is the number of input patients plus the number
\* of input observations whose owner is among the input patients; with no
\* patients and no observations the bundle is a transaction bundle with
\* zero entries.
C6_EntryCount ==
    \A c \in 1..Len(built) :
        /\ Len(built[c].entry)
               = Len(data.patients)
                 + Cardinality({j \in 1..Len(data.observations) :
                        \E k \in 1..Len(data.patients) :
                            data.patients[k].patientId = data.observations[j].patientId})
        /\ data = NoData =>
               built[c] = [resourceType |-> "Bundle", type |-> "transaction", entry |-> <<>>]

C6_Witness ==
    /\ Len(built) >= 1
    /\ Len(data.patients) = 2
    /\ data.patients[1].patientId = data.patients[2].patientId
    /\ Len(data.observations) = 2
    /\ Len(built[1].entry) = 3

\* C7: two runs of the builder on the same parsed data yield the same
\* sequence of idempotency directives although the temporary identities
\* differ, and each directive is keyed by the namespaced identifier of the
\* entry's own resource.
C7_DirectivesRepeat ==
    \A c1, c2 \in 1..Len(built) :
        /\ Len(built[c1].entry) = Len(built[c2].entry)
        /\ \A k \in 1..Len(built[c1].entry) :
               LET e1 == built[c1].entry[k]
                   e2 == built[c2].entry[k]
               IN  /\ e1.request.ifNoneExist = e2.request.ifNoneExist
                   /\ c1 # c2 => e1.fullUrl # e2.fullUrl
                   /\ e1.request.ifNoneExist
                          = "identifier=" \o e1.resource.identifier[1].system \o "|"
                                \o e1.resource.identifier[1].value

C7_Witness ==
    /\ Len(built) = 2
    /\ PatientEntriesOf(built[2]) # {}
    /\ ObservationEntriesOf(built[2]) # {}
    /\ built[1] # built[2]

(***************************************************************************)
(* Properties of the handler and the store (checked under Spec).           *)
(***************************************************************************)
Did(i, step) == \E k \in 1..Len(inv[i].steps) : inv[i].steps[k] = step

Directives(bundle) == {bundle.entry[k].request.ifNoneExist : k \in 1..Len(bundle.entry)}

CreatedBy(i) == {r \in store : r.id[1] = i}

\* The store accepted invocation i's transaction.
Accepted(i) == inv[i].pc \in {"submitted", "done"} /\ Did(i, "submit") /\ inv[i].raised = "none"

\* C1: processing the same landed file (same path, same content) again, at
\* any later time, produces only create-if-absent directives the first run
\* produced, so redelivery duplicates no patient and no observation.
C1_RedeliveryRepeatsDirectives ==
    \A i, j \in Inv :
        (/\ Did(i, "map") /\ Did(j, "map")
         /\ inv[i].bucket = inv[j].bucket
         /\ inv[i].fileName = inv[j].fileName)
        => Directives(inv[i].bundle) = Directives(inv[j].bundle)

PipelinePatients ==
    {r \in store : r.resourceType = "Patient" /\ r.identifier.system = FHIR_IDENTIFIER_SYSTEM}

\* C2: when concurrent invocations submit bundles that contain a patient with
\* the same external identifier, the store ends with exactly one Patient
\* resource for that namespaced identifier, and the invocation whose create
\* loses has its other entries applied and reports a result with a
\* non-success count for that entry instead of failing.
C2_OnePatientPerIdentifier ==
    /\ \A r1, r2 \in PipelinePatients : r1.identifier = r2.identifier => r1 = r2
    /\ \A i \in Inv :
           (Accepted(i) /\ inv[i].fileType \in {"csv", "hl7v2"}) =>
               /\ \A k \in 1..Len(inv[i].bundle.entry) :
                      LET e == inv[i].bundle.entry[k]
                          mine == [id |-> <<i, k>>,
                                   resourceType |-> e.resource.resourceType,
                                   identifier |-> e.resource.identifier[1]]
                      IN  /\ Len(inv[i].result) = Len(inv[i].bundle.entry)
                          /\ IF inv[i].result[k].response.status = StatusCreated
                             THEN mine \in store
                             ELSE /\ mine \notin store
                                  /\ \E r \in store :
                                         /\ r.resourceType = mine.resourceType
                                         /\ r.identifier = mine.identifier
                          /\ e.resource.resourceType = "Patient" =>
                                 Cardinality({r \in PipelinePatients :
                                                  r.identifier = mine.identifier}) = 1
               /\ inv[i].pc = "done" =>
                      /\ inv[i].response.status = 200
                      /\ inv[i].response.errorCount
                             = Cardinality({k \in 1..Len(inv[i].result) :
                                   inv[i].result[k].response.status # StatusCreated})
                      /\ inv[i].response.successCount + inv[i].response.errorCount
                             = Len(inv[i].bundle.entry)

C2_Witness ==
    \E i, j \in Inv :
        /\ i # j
        /\ inv[i].fileName # inv[j].fileName
        /\ inv[j].pc = "submitted"
        /\ inv[i].pc = "done"
        /\ Accepted(i)
        /\ inv[i].response.status = 200
        /\ inv[i].response.errorCount >= 1
        /\ inv[i].response.successCount >= 1
        /\ \E k \in 1..Len(inv[i].bundle.entry) :
               /\ inv[i].bundle.entry[k].resource.resourceType = "Patient"
               /\ inv[i].result[k].response.status = StatusExists
               /\ \E r \in CreatedBy(j) :
                      /\ r.resourceType = "Patient"
                      /\ r.identifier = inv[i].bundle.entry[k].resource.identifier[1]

\* C8: the eligibility predicate is evaluated before any content fetch,
\* parsing, mapping or submission, and an ineligible path ends the invocation
\* with a 200 response carrying a skip reason and without fetch, parse,
\* mapping or submission.
C8_EligibilityFirst ==
    \A i \in Inv :
        /\ \A k \in 1..Len(inv[i].steps) :
               inv[i].steps[k] \in {"fetch", "parse", "map", "submit"} =>
                   \E j \in 1..(k - 1) : inv[i].steps[j] = "classify"
        /\ (inv[i].pc # "idle" /\ inv[i].fileName # undefinedText
            /\ ~shouldProcess(inv[i].fileName)) =>
               /\ inv[i].pc = "done"
               /\ inv[i].response =
                      [status |-> 200, message |-> "Skipped - not a processable file"]
               /\ inv[i].steps = <<"decode", "classify">>
               /\ inv[i].bundle = NoBundle
               /\ inv[i].parsedData = NoData
               /\ CreatedBy(i) = {}

C8_Witness ==
    \E i \in Inv :
        /\ inv[i].pc = "done"
        /\ inv[i].fileName = PathProcessed
        /\ inv[i].response.status = 200
        /\ inv[i].steps = <<"decode", "classify">>

\* The body has one of the three accepted layouts and provides bucket and name.
AcceptedLayout(body) ==
    \/ Truthy(body.bucket) /\ TruthyText(body.name)
    \/ Truthy(body.data.bucket) /\ TruthyText(body.data.name)
    \/ /\ body.message.data
       /\ body.message.json = "object"
       /\ Truthy(body.message.bucket) /\ TruthyText(body.message.name)

\* C9: a payload is decoded to a (bucket, name) pair only if it has one of
\* the three accepted layouts; every other payload, including an envelope
\* whose decoded content does not provide bucket and name, ends the
\* invocation with a 400-class failure and no fetch, parse or submission.
\* (An envelope whose content is not a JSON object raises while decoding;
\* that case is left to C10.)
C9_OtherShapesFail400 ==
    \A i \in Inv :
        (/\ inv[i].pc # "idle"
         /\ ~AcceptedLayout(inv[i].body)
         /\ Decode(inv[i].body).kind # "throw") =>
            /\ inv[i].pc = "done"
            /\ inv[i].response.status = 400
            /\ ~Did(i, "fetch") /\ ~Did(i, "parse") /\ ~Did(i, "submit")

\* The content the handler parsed does not parse.
Unparsable(i) ==
    /\ Did(i, "parse")
    /\ \/ inv[i].fileType = "csv" /\ Files[inv[i].fileName].malformed
       \/ inv[i].fileType = "synthea" /\ ~Files[inv[i].fileName].valid

\* C10: if decoding, classification, content fetch, parsing (malformed
\* tabular input included) or mapping raises an exception, the invocation
\* ends with a 500-class failure response and the store's submit operation
\* has not been called in it.
C10_ExceptionBeforeSubmit ==
    \A i \in Inv :
        /\ inv[i].raised \in {"decode", "classify", "fetch", "parse", "map"} =>
               /\ inv[i].pc = "done"
               /\ inv[i].response.status = 500
               /\ ~Did(i, "submit")
               /\ inv[i].result = <<>>
               /\ CreatedBy(i) = {}
        /\ Unparsable(i) => inv[i].raised = "parse"
        /\ (inv[i].pc # "idle" /\ Decode(inv[i].body).kind = "throw") =>
               inv[i].raised = "decode"

C10_Witness ==
    \E i \in Inv :
        /\ inv[i].fileName = PathMalformed
        /\ inv[i].raised = "parse"
        /\ inv[i].pc = "done"
        /\ inv[i].response.status = 500

\* The calls of executeBundle invocation i made.
SubmitCalls(i) == Len(SelectSeq(inv[i].steps, LAMBDA s : s = "submit"))

\* C11: the store's submit operation is called at most once per invocation;
\* if that call fails, the invocation is over with a 500-class response that
\* reports no success or failure counts, nothing of it is in the store, and
\* no further submit call is made.
C11_SubmitAtMostOnce ==
    \A i \in Inv :
        /\ SubmitCalls(i) <= 1
        /\ inv[i].raised = "submit" =>
               /\ inv[i].pc = "done"
               /\ SubmitCalls(i) = 1
               /\ inv[i].response.status = 500
               /\ DOMAIN inv[i].response = {"status", "error"}
               /\ inv[i].result = <<>>
               /\ CreatedBy(i) = {}

C11_Witness ==
    \E i \in Inv :
        /\ inv[i].raised = "submit"
        /\ inv[i].fileType = "csv"
        /\ Len(inv[i].bundle.entry) >= 2
        /\ inv[i].response.status = 500

(***************************************************************************)
(* Counting the replies of a transaction (lines 105-108 and 141-146), on   *)
(* reply lists the store may answer with: any status text, a reply with no *)
(* status, a reply with no response member.                                *)
(***************************************************************************)
MaxReplies == 3        \* reply entries of one transaction response

Reply(status) == [response |-> [status |-> status]]

SampleReplies ==
    {Reply(StatusCreated), Reply(StatusExists),
     Reply(<<"2","0","0"," ","O","K">>),
     Reply(<<"2","2","6"," ","I","M"," ","U","s","e","d">>),
     Reply(<<"4","0","0"," ","B","a","d"," ","R","e","q","u","e","s","t">>),
     Reply(undefinedText),
     [fullUrl |-> "urn:uuid:x"]}

InitCount ==
    /\ now = 1
    /\ store = {}
    /\ inv = <<>>
    /\ data = NoData
    /\ built = <<>>
    /\ arg \in [fileType : {"csv", "hl7v2", "synthea"},
                result : SeqsUpTo(SampleReplies, MaxReplies)]
    /\ out = [done |-> FALSE]

\* The handler after executeBundle returned arg.result.
CountReplies ==
    /\ ~out.done
    /\ out' = [done |-> TRUE,
               value |-> responseData([Idle EXCEPT !.pc = "submitted",
                                                   !.fileType = arg.fileType,
                                                   !.result = arg.result])]
    /\ UNCHANGED <<now, store, inv, data, built, arg>>

NextCount == CountReplies

SpecCount == InitCount /\ [][NextCount]_vars

\* The reply carries a status text that begins with "2".
Is2xx(e) ==
    /\ "response" \in DOMAIN e
    /\ e.response.status # undefinedText
    /\ Len(e.response.status) >= 1
    /\ e.response.status[1] = "2"

\* C12: in every reported result the success count is the number of reply
\* entries whose status text begins with "2" (any 2xx status), the failure
\* count is the number of all other reply entries (replies without a status
\* included), and the two counts add up to the number of reply entries.
C12_SuccessIsAny2xx ==
    out.done =>
        LET twos == Cardinality({k \in 1..Len(arg.result) : Is2xx(arg.result[k])})
        IN  /\ out.value.successCount = twos
            /\ out.value.errorCount = Len(arg.result) - twos
            /\ out.value.successCount + out.value.errorCount = Len(arg.result)

\* The members of the response object of a processed file.
ResponseFields ==
    {"status", "message", "file", "patientsCreated", "observationsCreated",
     "bundleEntriesProcessed", "successCount", "errorCount"}

\* C13: every invocation that submits a bundle successfully, whatever the
\* format (tabular, segmented or passthrough), responds with one object that
\* carries the outcome message, the file path, the patient and observation
\* counts, the number of bundle entries submitted, the success count and the
\* failure count, under the same member names for every format.
C13_SameResponseMembers ==
    \A i \in Inv :
        (Accepted(i) /\ inv[i].pc = "done") =>
            /\ inv[i].response.status = 200
            /\ DOMAIN inv[i].response = ResponseFields

\* C14: for a passthrough file the bundle handed to the store is exactly the
\* bundle read from the file content: no parser and no mapper or bundle
\* builder ran, and no entry was added, removed, reordered or altered; the
\* store answers one reply per entry of the file.
C14_PassthroughUnchanged ==
    \A i \in Inv :
        (inv[i].fileType = "synthea" /\ Did(i, "submit")) =>
            /\ Files[inv[i].fileName].valid
            /\ inv[i].bundle = Files[inv[i].fileName].bundle
            /\ inv[i].steps = <<"decode", "classify", "fetch", "parse", "submit">>
            /\ inv[i].parsedData = NoData
            /\ Accepted(i) =>
                   /\ Len(inv[i].result) = Len(Files[inv[i].fileName].bundle.entry)
                   /\ \A k \in 1..Len(inv[i].result) :
                          inv[i].result[k].response.status = StatusCreated =>
                              \E stored \in CreatedBy(i) :
                                  /\ stored.id = <<i, k>>
                                  /\ stored.identifier =
                                         IdentifierOf(Files[inv[i].fileName].bundle.entry[k].resource)

C14_Witness ==
    \E i \in Inv :
        /\ inv[i].fileName = PathSynthea
        /\ inv[i].pc = "done"
        /\ Accepted(i)
        /\ inv[i].response.status = 200
        /\ inv[i].response.bundleEntriesProcessed = Len(SyntheaBundle.entry)
        /\ inv[i].response.successCount = Len(SyntheaBundle.entry)

(***************************************************************************)
(* The format classifier on its own: getFileType and shouldProcess applied *)
(* to object paths put together from a first part, a middle and an ending. *)
(***************************************************************************)
PathStarts ==
    {<<"c","s","v","-","e","h","r","/">>, <<"h","l","7","v","2","/">>,
     <<"s","y","n","t","h","e","a","/">>,
     <<"C","S","V","-","E","H","R","/">>, <<"H","l","7","v","2","/">>,
     <<"S","y","n","t","h","e","a","/">>,
     <<"p","r","o","c","e","s","s","e","d","/">>,
     <<"P","r","o","c","e","s","s","e","d","/">>,
     <<"c","s","v","-","e","h","r">>,
     <<"d","a","t","a","/","c","s","v","-","e","h","r","/">>,
     <<"p","r","o","c","e","s","s","e","d","/","h","l","7","v","2","/">>,
     <<"c","s","v","-","e","h","r","/","p","r","o","c","e","s","s","e","d","/">>,
     <<"u","n","k","n","o","w","n","/">>,
     <<>>}

PathMiddles == {<<>>, <<"a">>, <<"d","/","a">>}

PathEndings ==
    {<<>>, <<".","c","s","v">>, <<".","g","i","t","k","e","e","p">>,
     <<".","G","I","T","K","E","E","P">>,
     <<".","g","i","t","k","e","e","p",".","b","a","k">>}

SamplePaths == {a \o b \o c : a \in PathStarts, b \in PathMiddles, c \in PathEndings}

InitClassify ==
    /\ now = 1
    /\ store = {}
    /\ inv = <<>>
    /\ data = NoData
    /\ built = <<>>
    /\ arg \in SamplePaths
    /\ out = [done |-> FALSE]

\* gcsClient.shouldProcess(fileName) and gcsClient.getFileType(fileName)
Classify ==
    /\ ~out.done
    /\ out' = [done |-> TRUE,
               value |-> [eligible |-> shouldProcess(arg), type |-> getFileType(arg)]]
    /\ UNCHANGED <<now, store, inv, data, built, arg>>

NextClassify == Classify

SpecClassify == InitClassify /\ [][NextClassify]_vars

\* The first characters of path p are exactly those of w, case included.
BeginsWith(p, w) == Len(p) >= Len(w) /\ \A k \in 1..Len(w) : p[k] = w[k]

\* The last characters of path p are exactly those of w.
Ends(p, w) == Len(p) >= Len(w) /\ \A k \in 1..Len(w) : p[Len(p) - Len(w) + k] = w[k]

\* C15: a path is eligible exactly when it does not end with ".gitkeep", does
\* not begin with "processed/" and its format tag is not "unknown"; the tag
\* is decided by a case-sensitive exact match of the path's beginning with
\* "csv-ehr/", "hl7v2/" or "synthea/" and by nothing else.
C15_Eligibility ==
    out.done =>
        LET tabular == BeginsWith(arg, <<"c","s","v","-","e","h","r","/">>)
            segmented == BeginsWith(arg, <<"h","l","7","v","2","/">>)
            passthrough == BeginsWith(arg, <<"s","y","n","t","h","e","a","/">>)
        IN  /\ out.value.type = "csv" <=> tabular
            /\ out.value.type = "hl7v2" <=> segmented
            /\ out.value.type = "synthea" <=> passthrough
            /\ out.value.type = "unknown" <=> ~(tabular \/ segmented \/ passthrough)
            /\ out.value.eligible <=>
                   /\ ~Ends(arg, <<".","g","i","t","k","e","e","p">>)
                   /\ ~BeginsWith(arg, <<"p","r","o","c","e","s","s","e","d","/">>)
                   /\ (tabular \/ segmented \/ passthrough)

C15_Witness ==
    /\ out.done
    /\ arg = PathOtherCase \o <<".","c","s","v">>
    /\ out.value.type = "unknown"
    /\ ~out.value.eligible

(***************************************************************************)
(* The two sex normalizers on their own (csv-parser.ts 22-28 and           *)
(* index.ts 235-241), applied to the same raw text: a word in one of four  *)
(* letter cases, with or without blanks around it.                         *)
(***************************************************************************)
\* Words as the tests write them, in small and in capital letters, with what
\* the normalization table says they mean.
GenderWords ==
    {[lower |-> <<"m">>, upper |-> <<"M">>, means |-> "male"],
     [lower |-> <<"m","a","l","e">>, upper |-> <<"M","A","L","E">>, means |-> "male"],
     [lower |-> <<"f">>, upper |-> <<"F">>, means |-> "female"],
     [lower |-> <<"f","e","m","a","l","e">>, upper |-> <<"F","E","M","A","L","E">>, means |-> "female"],
     [lower |-> <<"o">>, upper |-> <<"O">>, means |-> "other"],
     [lower |-> <<"o","t","h","e","r">>, upper |-> <<"O","T","H","E","R">>, means |-> "other"],
     [lower |-> <<"u">>, upper |-> <<"U">>, means |-> "unknown"],
     [lower |-> <<"u","n","k","n","o","w","n">>, upper |-> <<"U","N","K","N","O","W","N">>, means |-> "unknown"],
     [lower |-> <<>>, upper |-> <<>>, means |-> "unknown"],
     [lower |-> <<"x">>, upper |-> <<"X">>, means |-> "unknown"],
     [lower |-> <<"m","a","l","e","s">>, upper |-> <<"M","A","L","E","S">>, means |-> "unknown"],
     [lower |-> <<"m","a"," ","l","e">>, upper |-> <<"M","A"," ","L","E">>, means |-> "unknown"],
     [lower |-> <<"m","a","l">>, upper |-> <<"M","A","L">>, means |-> "unknown"],
     [lower |-> <<"f","e">>, upper |-> <<"F","E">>, means |-> "unknown"],
     [lower |-> <<"o","t","h","e","r","s">>, upper |-> <<"O","T","H","E","R","S">>, means |-> "unknown"],
     [lower |-> <<"m","a","n">>, upper |-> <<"M","A","N">>, means |-> "unknown"],
     [lower |-> <<"n","o","n","-","b","i","n","a","r","y">>, upper |-> <<"N","O","N","-","B","I","N","A","R","Y">>, means |-> "unknown"]}

LetterCases == {"lower", "upper", "capitalised", "inverted"}

Blanks == {<<>>, <<" ">>, <<" ", " ">>, <<"\t">>, <<"\n">>}

Cased(w, c) ==
    IF c = "lower" THEN w.lower
    ELSE IF c = "upper" THEN w.upper
    ELSE IF c = "capitalised"
    THEN [k \in 1..Len(w.lower) |-> IF k = 1 THEN w.upper[k] ELSE w.lower[k]]
    ELSE [k \in 1..Len(w.lower) |-> IF k = 1 THEN w.lower[k] ELSE w.upper[k]]

SampleGenders ==
    {[means |-> w.means, text |-> a \o Cased(w, c) \o b] :
        w \in GenderWords, c \in LetterCases, a \in Blanks, b \in {<<>>, <<" ">>}}

InitGender ==
    /\ now = 1
    /\ store = {}
    /\ inv = <<>>
    /\ data = NoData
    /\ built = <<>>
    /\ arg \in SampleGenders
    /\ out = [done |-> FALSE]

\* Both parsers normalize the same raw value.
NormalizeGender ==
    /\ ~out.done
    /\ out' = [done |-> TRUE,
               value |-> [csv |-> normalizeGenderCSV(arg.text),
                          hl7 |-> normalizeGenderHL7(arg.text)]]
    /\ UNCHANGED <<now, store, inv, data, built, arg>>

NextGender == NormalizeGender

SpecGender == InitGender /\ [][NextGender]_vars

\* C16: sex normalization is total in both parsers and its result is one of
\* male, female, other, unknown: m or male gives male, f or female gives
\* female, o or other gives other, whatever the letter case and the blanks
\* around the word, anything else gives unknown; the two normalizers return
\* the same result for every input.
C16_GenderNormalization ==
    out.done =>
        /\ out.value.csv \in {"male", "female", "other", "unknown"}
        /\ out.value.hl7 \in {"male", "female", "other", "unknown"}
        /\ out.value.csv = arg.means
        /\ out.value.hl7 = arg.means
        /\ out.value.csv = out.value.hl7

C16_Witness ==
    /\ out.done
    /\ arg.text = <<" ", "F", "e", "m", "a", "l", "e", " ">>
    /\ out.value.csv = "female"
    /\ out.value.hl7 = "female"

(***************************************************************************)
(* The HL7v2 parser on its own: parseHL7v2 applied to the lines of up to   *)
(* MaxMessages messages, at some clock reading.  A message is given with   *)
(* the patient identifiers its PID lines carry (PID-3, first component)    *)
(* and the code and value text of its OBX lines (OBX-3, OBX-5).            *)
(***************************************************************************)
MaxMessages == 2       \* messages of one HL7v2 file

\* A patient with one result
MessageMax ==
    [ids |-> <<"P004">>,
     results |-> <<[code |-> "8867-4", raw |-> <<"6","4">>]>>,
     lines |-> <<<<"M","S","H","|","^","~","\\","&","|","A","|","B","|","C","|","D","|","2","0","2","4","0","1","1","0">>,
                 <<"P","I","D","|","1","|","|","P","0","0","4","|","|","R","o","e","^","M","a","x","|","|","1","9","8","0","0","1","0","1","|","M">>,
                 <<"O","B","X","|","1","|","N","M","|","8","8","6","7","-","4","|","|","6","4","|","b","p","m">>>>]

\* The same identifier again, other field values
MessageMaxAgain ==
    [ids |-> <<"P004">>,
     results |-> <<[code |-> "8310-5", raw |-> <<"3","6",".","6">>]>>,
     lines |-> <<<<"M","S","H","|","^","~","\\","&","|","A","|","B","|","C","|","D","|","2","0","2","4","0","1","1","0">>,
                 <<"P","I","D","|","1","|","|","P","0","0","4","^","^","^","M","R","N","|","|","R","o","e","^","M","a","x","i","m","i","l","i","a","n","|","|","1","9","8","0","0","1","0","1","|","M">>,
                 <<"O","B","X","|","1","|","N","M","|","8","3","1","0","-","5","|","|","3","6",".","6","|","C","e","l">>>>]

\* Another patient, no result
MessageAnn ==
    [ids |-> <<"P005">>,
     results |-> <<>>,
     lines |-> <<<<"M","S","H","|","^","~","\\","&","|","A","|","B","|","C","|","D","|","2","0","2","4","0","1","1","0">>,
                 <<"P","I","D","|","1","|","|","P","0","0","5","|","|","P","o","e","^","A","n","n","|","|","1","9","7","5","0","5","0","5","|","F">>>>]

\* A PID segment whose identifier field is empty
MessageNoId ==
    [ids |-> <<"">>,
     results |-> <<[code |-> "ABO", raw |-> <<"A","+">>]>>,
     lines |-> <<<<"M","S","H","|","^","~","\\","&","|","A","|","B","|","C","|","D","|","2","0","2","4","0","1","1","0">>,
                 <<"P","I","D","|","1","|","|","|","|","D","o","e","^","J","o","|","|","1","9","6","0","0","1","0","1","|","F">>,
                 <<"O","B","X","|","1","|","S","T","|","A","B","O","|","|","A","+","|">>>>]

\* A PID segment that ends before the identifier field
MessageShortPid ==
    [ids |-> <<"">>,
     results |-> <<>>,
     lines |-> <<<<"M","S","H","|","^","~","\\","&","|","A","|","B","|","C","|","D","|","2","0","2","4","0","1","1","0">>,
                 <<"P","I","D","|","1">>>>]

\* A message without a PID segment
MessageNoPid ==
    [ids |-> <<>>,
     results |-> <<[code |-> "8867-4", raw |-> <<"7","0">>]>>,
     lines |-> <<<<"M","S","H","|","^","~","\\","&","|","A","|","B","|","C","|","D","|","2","0","2","4","0","1","1","0">>,
                 <<"O","B","X","|","1","|","N","M","|","8","8","6","7","-","4","|","|","7","0","|","b","p","m">>>>]

\* Segment lines with no MSH line before them
LinesNoHeader ==
    [ids |-> <<"P006">>,
     results |-> <<[code |-> "8867-4", raw |-> <<"8","0">>]>>,
     lines |-> <<<<"P","I","D","|","1","|","|","P","0","0","6","|","|","L","e","e","^","K","i","m","|","|","1","9","9","0","0","1","0","1","|","O">>,
                 <<"O","B","X","|","1","|","N","M","|","8","8","6","7","-","4","|","|","8","0","|","b","p","m">>>>]

\* A patient with address and phone; results with an unlisted code, an empty and a blank value
MessagePanel ==
    [ids |-> <<"P007">>,
     results |-> <<[code |-> "BLOOD-TYPE.X", raw |-> <<"A","+">>], [code |-> "8867-4", raw |-> <<>>], [code |-> "2708-6", raw |-> <<" ">>]>>,
     lines |-> <<<<"M","S","H","|","^","~","\\","&","|","A","|","B","|","C","|","D","|","2","0","2","4","0","1","1","0">>,
                 <<"P","I","D","|","1","|","|","P","0","0","7","|","|","R","a","y","^","L","o","u","|","|","1","9","7","0","0","1","0","1","|","M","|","|","|","1","2"," ","E","l","m","^","^","A","m","e","s","^","I","A","^","5","0","0","1","0","|","|","5","5","5","-","0","1","0","1">>,
                 <<"O","B","X","|","1","|","S","T","|","B","L","O","O","D","-","T","Y","P","E",".","X","|","|","A","+","|">>,
                 <<"O","B","X","|","2","|","N","M","|","8","8","6","7","-","4","|","|","|","b","p","m">>,
                 <<"O","B","X","|","3","|","N","M","|","2","7","0","8","-","6","|","|"," ","|","%">>>>]

\* A patient with a family name only and a city only; a signed value and a value that begins with digits
MessageOdd ==
    [ids |-> <<"P008">>,
     results |-> <<[code |-> "8310-5", raw |-> <<"-","1",".","5","0">>], [code |-> "X1", raw |-> <<"1","2","a","b","c">>]>>,
     lines |-> <<<<"M","S","H","|","^","~","\\","&","|","A","|","B","|","C","|","D","|","2","0","2","4","0","1","1","0">>,
                 <<"P","I","D","|","1","|","|","P","0","0","8","|","|","R","a","y","|","|","1","9","7","0","0","1","0","1","|","U","|","|","|","^","^","A","m","e","s">>,
                 <<"O","B","X","|","1","|","N","M","|","8","3","1","0","-","5","|","|","-","1",".","5","0","|","C","e","l">>,
                 <<"O","B","X","|","2","|","S","T","|","X","1","|","|","1","2","a","b","c","|">>>>]

\* A patient whose results carry local codes, one of them spelled like a type tag
MessageLocal ==
    [ids |-> <<"P009">>,
     results |-> <<[code |-> "heart-rate", raw |-> <<"7","1">>], [code |-> "ABO/Rh", raw |-> <<"O","-">>]>>,
     lines |-> <<<<"M","S","H","|","^","~","\\","&","|","A","|","B","|","C","|","D","|","2","0","2","4","0","1","1","0">>,
                 <<"P","I","D","|","1","|","|","P","0","0","9","|","|","K","a","y","^","A","l","|","|","1","9","8","5","0","1","0","1","|","F">>,
                 <<"O","B","X","|","1","|","N","M","|","h","e","a","r","t","-","r","a","t","e","|","|","7","1","|","b","p","m">>,
                 <<"O","B","X","|","2","|","S","T","|","A","B","O","/","R","h","|","|","O","-","|">>>>]

SampleMessages ==
    {MessageMax, MessageMaxAgain, MessageAnn, MessageNoId, MessageShortPid,
     MessageNoPid, LinesNoHeader, MessagePanel, MessageOdd, MessageLocal}

RECURSIVE LinesOf(_)
LinesOf(messages) ==
    IF messages = <<>> THEN <<>> ELSE Head(messages).lines \o LinesOf(Tail(messages))

InitHL7 ==
    /\ now = 1
    /\ store = {}
    /\ inv = <<>>
    /\ data = NoData
    /\ built = <<>>
    /\ arg \in [messages : SeqsUpTo(SampleMessages, MaxMessages),
                clock : {Reading(day, tick) : day \in 1..MaxDay, tick \in BOOLEAN}]
    /\ out = [done |-> FALSE]

\* parseHL7v2(content)
ParseHL7 ==
    /\ ~out.done
    /\ out' = [done |-> TRUE, value |-> parseHL7v2(LinesOf(arg.messages), arg.clock)]
    /\ UNCHANGED <<now, store, inv, data, built, arg>>

NextHL7 == ParseHL7

SpecHL7 == InitHL7 /\ [][NextHL7]_vars

\* The patient identifiers written in the input, the empty one included.
InputIds(messages) ==
    UNION {{messages[k].ids[j] : j \in 1..Len(messages[k].ids)} : k \in 1..Len(messages)}

OutputIds(parsed) == {parsed.patients[k].patientId : k \in 1..Len(parsed.patients)}

\* C17: for any tabular or segmented input the output patient list has
\* exactly one record per distinct patient identifier of the input: no two
\* output patients share an identifier, and the output has as many distinct
\* identifiers as the input.  (Stated here for the segmented parser, on
\* inputs in which every message begins with its header line.)
C17_OnePatientPerInputId ==
    (/\ out.done
     /\ \A k \in 1..Len(arg.messages) :
            StartsWith(arg.messages[k].lines[1], <<"M","S","H","|">>)) =>
        /\ \A j, k \in 1..Len(out.value.patients) :
               out.value.patients[j].patientId = out.value.patients[k].patientId => j = k
        /\ Cardinality(OutputIds(out.value)) = Cardinality(InputIds(arg.messages))

(***************************************************************************)
(* The CSV parser on its own: parseCSV applied to up to MaxRows records as *)
(* csv-parse returns them (trimmed; an absent column is undefined), on     *)
(* some day.                                                               *)
(***************************************************************************)
MaxRows == 3           \* records of one CSV file

SampleRows ==
    {CSVRow("P001", "John", <<"M">>, heart_rate, <<"7","2">>, "bpm", "2024-01-10"),
     CSVRow("P001", "Johnny", <<"f">>, heart_rate, <<"7","5">>, "bpm", "2024-01-11"),
     CSVRow("P002", "Jane", <<"F">>, blood_type, <<"A","+">>, "", ""),
     CSVRow("P001", "Jon", <<"M">>, <<>>, <<>>, "", ""),
     CSVRow("P002", "Jane", <<"F">>, heart_rate, <<>>, "bpm", "2024-01-12"),
     CSVRow("P003", "Sam", <<"O">>, <<>>, <<"7","2">>, "bpm", "2024-01-12"),
     CSVRow("P003", "Sam", <<"O">>, heart_rate, <<"0">>, undefined, undefined),
     CSVRow("P004", "Kim", <<"x">>, undefinedText, undefinedText, undefined, undefined)}

InitCSV ==
    /\ now = 1
    /\ store = {}
    /\ inv = <<>>
    /\ data = NoData
    /\ built = <<>>
    /\ arg \in [rows : SeqsUpTo(SampleRows, MaxRows), day : 1..MaxDay]
    /\ out = [done |-> FALSE]

\* parseCSV(content)
ParseCSV ==
    /\ ~out.done
    /\ out' = [done |-> TRUE,
               value |-> parseCSV([malformed |-> FALSE, rows |-> arg.rows], arg.day)]
    /\ UNCHANGED <<now, store, inv, data, built, arg>>

NextCSV == ParseCSV

SpecCSV == InitCSV /\ [][NextCSV]_vars

\* The first row of the input that carries patient identifier id.
FirstRow(rows, id) ==
    CHOOSE k \in 1..Len(rows) :
        /\ rows[k].patient_id = id
        /\ \A j \in 1..(k - 1) : rows[j].patient_id # id

\* The column is there and is not empty.
Present(text) == text # undefinedText /\ Len(text) > 0

\* The numbers of the rows that carry an observation, in row order.
ObservationRows(rows) ==
    SelectSeq([k \in 1..Len(rows) |-> k],
              LAMBDA k : Present(rows[k].observation_type)
                             /\ Present(rows[k].observation_value))

\* C18: when several rows share a patient identifier the patient record has
\* the field values of the first such row, and every later row that carries
\* an observation still contributes it; patients come in first-seen order
\* and observations in row order.
C18_FirstRowWins ==
    out.done =>
        LET rows == arg.rows
            patients == out.value.data.patients
            observations == out.value.data.observations
            carrying == ObservationRows(rows)
        IN  /\ out.value.ok
            /\ \A k \in 1..Len(rows) :
                   \E n \in 1..Len(patients) : patients[n].patientId = rows[k].patient_id
            /\ \A n \in 1..Len(patients) :
                   /\ \E k \in 1..Len(rows) : rows[k].patient_id = patients[n].patientId
                   /\ LET first == rows[FirstRow(rows, patients[n].patientId)]
                      IN  /\ patients[n].firstName = first.first_name
                          /\ patients[n].lastName = first.last_name
                          /\ patients[n].birthDate = first.birth_date
                          /\ patients[n].gender = normalizeGenderCSV(first.gender)
                          /\ patients[n].addressLine = first.address_line
                          /\ patients[n].city = first.city
                          /\ patients[n].state = first.state
                          /\ patients[n].postalCode = first.postal_code
                          /\ patients[n].phone = first.phone
                          /\ patients[n].email = first.email
                   /\ \A m \in 1..(n - 1) :
                          FirstRow(rows, patients[m].patientId)
                              < FirstRow(rows, patients[n].patientId)
            /\ Len(observations) = Len(carrying)
            /\ \A n \in 1..Len(observations) :
                   /\ observations[n].patientId = rows[carrying[n]].patient_id
                   /\ observations[n].observationType = rows[carrying[n]].observation_type
                   /\ observations[n].observationValue
                          = CoerceValue(rows[carrying[n]].observation_value)

C18_Witness ==
    /\ out.done
    /\ Len(arg.rows) = 3
    /\ arg.rows[1].first_name = "Jane" /\ arg.rows[1].observation_type = blood_type
    /\ arg.rows[2].first_name = "John"
    /\ arg.rows[3].first_name = "Johnny"
    /\ Len(out.value.data.patients) = 2
    /\ out.value.data.patients[2].firstName = "John"
    /\ out.value.data.patients[2].gender = "male"
    /\ Len(out.value.data.observations) = 3
    /\ out.value.data.observations[3].observationValue = NumberValue("75")

\* C19: the parser emits an observation for a row exactly when both the
\* observation type and the observation value of the row are present and
\* not empty; a missing unit becomes the empty string, a missing date the
\* current processing date, and rows that repeat an observation are all
\* kept.
C19_ObservationPerCarryingRow ==
    out.done =>
        LET rows == arg.rows
            observations == out.value.data.observations
            carrying == ObservationRows(rows)
        IN  /\ Len(observations) = Len(carrying)
            /\ \A n \in 1..Len(observations) :
                   LET row == rows[carrying[n]]
                   IN  /\ observations[n].patientId = row.patient_id
                       /\ observations[n].observationType = row.observation_type
                       /\ observations[n].observationUnit =
                              IF row.observation_unit \in {undefined, ""} THEN ""
                              ELSE row.observation_unit
                       /\ observations[n].observationDate =
                              IF row.observation_date \in {undefined, ""}
                              THEN IsoDate(arg.day)
                              ELSE row.observation_date

C19_Witness ==
    /\ out.done
    /\ arg.day = 2
    /\ Len(arg.rows) = 3
    /\ arg.rows[1] = arg.rows[2]
    /\ arg.rows[1].observation_type = blood_type
    /\ arg.rows[3].observation_type = heart_rate /\ arg.rows[3].observation_value = <<>>
    /\ Len(out.value.data.observations) = 2
    /\ out.value.data.observations[1] = out.value.data.observations[2]
    /\ out.value.data.observations[2].observationUnit = ""
    /\ out.value.data.observations[2].observationDate = "2024-01-16"

\* The resource of the j-th observation entry of bundle b, built from d.
MappedObservation(b, d, j) == b.entry[Len(d.patients) + j].resource

\* C20: the mapped Observation of every observation record carries exactly
\* one of valueQuantity (the value, the unit and the fixed unit system) and
\* valueString: valueQuantity exactly when the record's value is a number,
\* valueString otherwise; never both and never neither.
C20_QuantityOrString ==
    \A c \in 1..Len(built) :
        \A j \in 1..Len(Survivors(data)) :
            LET o == Survivors(data)[j]
                r == MappedObservation(built[c], data, j)
                quantity == "valueQuantity" \in DOMAIN r
                string == "valueString" \in DOMAIN r
            IN  /\ r.resourceType = "Observation"
                /\ quantity # string
                /\ quantity <=> o.observationValue.type = "number"
                /\ quantity =>
                       /\ r.valueQuantity.value = o.observationValue
                       /\ r.valueQuantity.unit = o.observationUnit
                       /\ r.valueQuantity.system = "http://unitsofmeasure.org"
                /\ string => r.valueString = o.observationValue.text

C20_Witness ==
    /\ Len(built) >= 1
    /\ Len(data.patients) = 1
    /\ Len(Survivors(data)) = 2
    /\ data.observations[1].observationValue = NumberValue("72")
    /\ data.observations[2].observationValue = StringValue("72")
    /\ "valueQuantity" \in DOMAIN MappedObservation(built[1], data, 1)
    /\ "valueString" \in DOMAIN MappedObservation(built[1], data, 2)

\* Every message of the input begins with its header line.
Headed(messages) ==
    \A k \in 1..Len(messages) : StartsWith(messages[k].lines[1], <<"M","S","H","|">>)

\* The OBX lines of the messages that have a PID line, in input order.
RECURSIVE ResultsOf(_)
ResultsOf(messages) ==
    IF messages = <<>> THEN <<>>
    ELSE (IF Head(messages).ids = <<>> THEN <<>> ELSE Head(messages).results)
             \o ResultsOf(Tail(messages))

\* The text reads as a decimal number: an optional sign, digits with at most
\* one point, at least one digit, blanks around it allowed.
NumericLooking(raw) ==
    LET t == Trim(raw)
        body == IF t # <<>> /\ t[1] \in {"+", "-"} THEN Tail(t) ELSE t
    IN  /\ \E k \in 1..Len(body) : IsDigit(body[k])
        /\ \A k \in 1..Len(body) : IsDigit(body[k]) \/ body[k] = "."
        /\ Cardinality({k \in 1..Len(body) : body[k] = "."}) <= 1

\* C21: an observation value is stored as a number exactly when its text is
\* numeric-looking and is stored unchanged as a string in every other case
\* (for example "A+", or an empty or blank value field).  (Stated here for
\* the segmented parser.)
C21_NumberIffNumericLooking ==
    (out.done /\ Headed(arg.messages)) =>
        LET results == ResultsOf(arg.messages)
            observations == out.value.observations
        IN  /\ Len(observations) = Len(results)
            /\ \A n \in 1..Len(observations) :
                   /\ observations[n].observationValue.type = "number"
                          <=> NumericLooking(results[n].raw)
                   /\ ~NumericLooking(results[n].raw) =>
                          observations[n].observationValue
                              = StringValue(Str(results[n].raw))

\* The input without its messages that have no PID line.
WithPid(messages) == SelectSeq(messages, LAMBDA m : m.ids # <<>>)

\* C22: a message that has no patient-identity segment contributes nothing:
\* no patient is registered for it, none of its result segments produces an
\* observation, no error is raised, and the patients and observations of
\* the other messages are output exactly as if that message were absent.
\* (The comparison is made at a clock that stands still during the parse,
\* so that generated identifiers do not depend on the number of messages.)
C22_NoPidNoContribution ==
    (out.done /\ Headed(arg.messages)) =>
        /\ Len(out.value.observations) = Len(ResultsOf(arg.messages))
        /\ Len(out.value.patients) <= Len(WithPid(arg.messages))
        /\ \A n \in 1..Len(out.value.observations) :
               \E k \in 1..Len(out.value.patients) :
                   out.value.patients[k].patientId = out.value.observations[n].patientId
        /\ ~arg.clock.tick =>
               out.value = parseHL7v2(LinesOf(WithPid(arg.messages)), arg.clock)

C22_Witness ==
    /\ out.done
    /\ arg.messages = <<MessageNoPid, MessageMax>>
    /\ ~arg.clock.tick
    /\ Len(out.value.patients) = 1
    /\ out.value.patients[1].patientId = "P004"
    /\ Len(out.value.observations) = 1
    /\ out.value.observations[1].observationValue = NumberValue("64")

(***************************************************************************)
(* The patient mapper on its own: mapPatientToFHIR applied to records      *)
(* whose optional members are undefined (as the HL7v2 parser leaves them), *)
(* empty (as the CSV parser leaves an empty column) or given.              *)
(***************************************************************************)
OptionalValues(v) == {undefined, "", v}

SamplePatientRecords ==
    [patientId : {"P001"}, firstName : {"John"}, lastName : {"Doe"},
     birthDate : {"1990-01-15"}, gender : {"male"},
     addressLine : OptionalValues("123 Main St"), city : OptionalValues("Boston"),
     state : OptionalValues("MA"), postalCode : OptionalValues("02101"),
     phone : OptionalValues("555-0100"), email : OptionalValues("john@example.com")]

InitPatient ==
    /\ now = 1
    /\ store = {}
    /\ inv = <<>>
    /\ data = NoData
    /\ built = <<>>
    /\ arg \in SamplePatientRecords
    /\ out = [done |-> FALSE]

\* mapPatientToFHIR(patient)
MapPatient ==
    /\ ~out.done
    /\ out' = [done |-> TRUE, value |-> mapPatientToFHIR(arg)]
    /\ UNCHANGED <<now, store, inv, data, built, arg>>

NextPatient == MapPatient

SpecPatient == InitPatient /\ [][NextPatient]_vars

\* The record has the optional member: it is there and it is not empty.
Given(v) == v # undefined /\ v # ""

\* The member as the resource carries it when it is not given: unset.
CarriedOrUnset(v) == IF Given(v) THEN v ELSE undefined

\* C23: the mapped Patient has a telecom list exactly when the record has a
\* phone or an email, and the list holds exactly the ones it has; it has an
\* address list exactly when at least one of street, city, state and postal
\* code is there, and in it the parts that are not there are left unset and
\* the parts that are there are carried through unchanged.
C23_TelecomAndAddress ==
    out.done =>
        LET r == out.value
            phones == IF Given(arg.phone) THEN <<[system |-> "phone", value |-> arg.phone]>>
                      ELSE <<>>
            emails == IF Given(arg.email) THEN <<[system |-> "email", value |-> arg.email]>>
                      ELSE <<>>
        IN  /\ "telecom" \in DOMAIN r <=> (Given(arg.phone) \/ Given(arg.email))
            /\ "telecom" \in DOMAIN r =>
                   [k \in 1..Len(r.telecom) |->
                       [system |-> r.telecom[k].system, value |-> r.telecom[k].value]]
                       = phones \o emails
            /\ "address" \in DOMAIN r <=>
                   (\/ Given(arg.addressLine) \/ Given(arg.city)
                    \/ Given(arg.state) \/ Given(arg.postalCode))
            /\ "address" \in DOMAIN r =>
                   /\ Len(r.address) = 1
                   /\ r.address[1].line =
                          IF Given(arg.addressLine) THEN <<arg.addressLine>> ELSE undefined
                   /\ r.address[1].city = CarriedOrUnset(arg.city)
                   /\ r.address[1].state = CarriedOrUnset(arg.state)
                   /\ r.address[1].postalCode = CarriedOrUnset(arg.postalCode)

\* The three terminal outcomes, told by the response.
Skipped(i) ==
    /\ inv[i].response.status = 200
    /\ DOMAIN inv[i].response = {"status", "message"}

Reported(i) ==
    /\ inv[i].response.status = 200
    /\ {"successCount", "errorCount", "bundleEntriesProcessed"} \subseteq DOMAIN inv[i].response

Failed(i) ==
    /\ inv[i].response.status \in {400, 500}
    /\ DOMAIN inv[i].response = {"status", "error"}

\* At every moment: a response is there exactly when the invocation is
\* over, it is one of the three outcomes, and the steps behind it are the
\* ones of the outcome, in order.
OneOutcome ==
    \A i \in Inv :
        /\ inv[i].pc = "done" <=> inv[i].response # NoResponse
        /\ inv[i].pc = "done" =>
               /\ Cardinality({o \in {"skipped", "reported", "failed"} :
                                  \/ o = "skipped" /\ Skipped(i)
                                  \/ o = "reported" /\ Reported(i)
                                  \/ o = "failed" /\ Failed(i)}) = 1
               /\ Skipped(i) => inv[i].steps = <<"decode", "classify">>
               /\ Reported(i) =>
                      /\ inv[i].raised = "none"
                      /\ inv[i].steps =
                             IF inv[i].fileType = "synthea"
                             THEN <<"decode", "classify", "fetch", "parse", "submit">>
                             ELSE <<"decode", "classify", "fetch", "parse", "map", "submit">>
               /\ Failed(i) => ~Did(i, "submit") \/ inv[i].raised = "submit"

\* No step of an invocation runs after its terminal outcome.
NothingAfterOutcome ==
    \A i \in Inv : inv[i].pc = "done" => inv'[i] = inv[i]

RECURSIVE FromFirstHeader(_)
FromFirstHeader(messages) ==
    IF messages = <<>> THEN <<>>
    ELSE IF StartsWith(Head(messages).lines[1], <<"M","S","H","|">>) THEN messages
    ELSE FromFirstHeader(Tail(messages))

\* C25: every message is one header line followed by all lines up to the
\* next header line: every patient and every observation of the output
\* comes from a message that begins with a header line, and the lines that
\* precede the first header line of the input belong to no message, so the
\* output is that of the input from its first header line on.
C25_MessagesBeginWithHeader ==
    out.done =>
        /\ FromFirstHeader(arg.messages) = <<>> => out.value = NoData
        /\ ~arg.clock.tick =>
               out.value = parseHL7v2(LinesOf(FromFirstHeader(arg.messages)), arg.clock)

\* The clock reading n messages later.
RECURSIVE LaterBy(_, _)
LaterBy(clock, n) == IF n = 0 THEN clock ELSE LaterBy(Later(clock), n - 1)

\* The patient identifier of message k, which has a PID line: the one written
\* in it, or the one generated for it when the field is empty.
OwnerOf(messages, k, clock) ==
    IF messages[k].ids[1] # "" THEN messages[k].ids[1]
    ELSE "HL7-" \o DateNow(LaterBy(clock, k - 1))

\* One entry per OBX line of the messages from the k-th on that have a PID
\* line: the message's patient identifier and the line's value text.
RECURSIVE OwnedResults(_, _, _)
OwnedResults(messages, k, clock) ==
    IF k > Len(messages) THEN <<>>
    ELSE (IF messages[k].ids = <<>> THEN <<>>
          ELSE [r \in 1..Len(messages[k].results) |->
                   [owner |-> OwnerOf(messages, k, clock),
                    raw |-> messages[k].results[r].raw]])
             \o OwnedResults(messages, k + 1, clock)

\* The first message that has the patient identifier id.
FirstWith(messages, id, clock) ==
    CHOOSE k \in 1..Len(messages) :
        /\ messages[k].ids # <<>> /\ OwnerOf(messages, k, clock) = id
        /\ \A j \in 1..(k - 1) :
               messages[j].ids = <<>> \/ OwnerOf(messages, j, clock) # id

\* C26: for every message that has a patient-identity segment there is
\* exactly one observation per result segment of that message, attributed to
\* that message's patient identifier, in segment order and with messages in
\* input order, also when an earlier message registered that patient, whose
\* fields are then those of the earlier message.
C26_ObservationPerResultSegment ==
    (out.done /\ Headed(arg.messages)) =>
        LET expected == OwnedResults(arg.messages, 1, arg.clock)
            observations == out.value.observations
            patients == out.value.patients
        IN  /\ Len(observations) = Len(expected)
            /\ \A n \in 1..Len(observations) :
                   /\ observations[n].patientId = expected[n].owner
                   /\ observations[n].observationValue = CoerceValue(expected[n].raw)
            /\ \A p \in 1..Len(patients) :
                   LET k == FirstWith(arg.messages, patients[p].patientId, arg.clock)
                   IN  patients[p] = extractPatientFromPID(
                                         parseHL7Segment(arg.messages[k].lines[2]),
                                         LaterBy(arg.clock, k - 1))

C26_Witness ==
    /\ out.done
    /\ arg.messages = <<MessageMax, MessageMaxAgain>>
    /\ Len(out.value.patients) = 1
    /\ out.value.patients[1].firstName = "Max"
    /\ Len(out.value.observations) = 2
    /\ out.value.observations[2].patientId = "P004"
    /\ out.value.observations[2].observationType = OBX_CODE_MAP["8310-5"]

\* Component c of field f is absent from a segment: the segment ends before
\* the field, the field is empty, or it ends before the component or has it
\* empty (both counted from 0).
Absent(segment, f, c) ==
    \/ f + 1 > Len(segment.fields)
    \/ segment.fields[f + 1] = <<>>
    \/ c + 1 > Len(Split(segment.fields[f + 1], "^"))
    \/ Split(segment.fields[f + 1], "^")[c + 1] = <<>>

\* C27: when the name field, the address field, a component of either, or
\* the phone field is absent from the PID segment, the corresponding
\* attribute (given name, family name, street, city, state, postal code,
\* phone) is omitted from the patient record, and no error is raised.
C27_AbsentFieldOmitted ==
    (out.done /\ Headed(arg.messages)) =>
        \A p \in 1..Len(out.value.patients) :
            LET patient == out.value.patients[p]
                k == FirstWith(arg.messages, patient.patientId, arg.clock)
                pid == parseHL7Segment(arg.messages[k].lines[2])
            IN  /\ Absent(pid, 4, 0) => patient.lastName = undefined
                /\ Absent(pid, 4, 1) => patient.firstName = undefined
                /\ Absent(pid, 10, 0) => patient.addressLine = undefined
                /\ Absent(pid, 10, 2) => patient.city = undefined
                /\ Absent(pid, 10, 3) => patient.state = undefined
                /\ Absent(pid, 10, 4) => patient.postalCode = undefined
                /\ Absent(pid, 12, 0) => patient.phone = undefined

\* C27, as the code has it: an absent family or given name is recorded as
\* "Unknown"; an absent street, city, state, postal code or phone is omitted
\* from the patient record; a component that is present is carried as it is
\* written; no error is raised.
C27_AbsentNameUnknownOthersOmitted ==
    (out.done /\ Headed(arg.messages)) =>
        \A p \in 1..Len(out.value.patients) :
            LET patient == out.value.patients[p]
                k == FirstWith(arg.messages, patient.patientId, arg.clock)
                pid == parseHL7Segment(arg.messages[k].lines[2])
                Carried(f, c, attribute, missing) ==
                    IF Absent(pid, f, c) THEN attribute = missing
                    ELSE attribute = Str(Split(pid.fields[f + 1], "^")[c + 1])
            IN  /\ Carried(4, 0, patient.lastName, "Unknown")
                /\ Carried(4, 1, patient.firstName, "Unknown")
                /\ Carried(10, 0, patient.addressLine, undefined)
                /\ Carried(10, 2, patient.city, undefined)
                /\ Carried(10, 3, patient.state, undefined)
                /\ Carried(10, 4, patient.postalCode, undefined)
                /\ Carried(12, 0, patient.phone, undefined)

C27_Witness ==
    /\ out.done
    /\ arg.messages = <<MessageOdd, MessagePanel>>
    /\ Len(out.value.patients) = 2
    /\ out.value.patients[1].lastName = "Ray"
    /\ out.value.patients[1].firstName = "Unknown"
    /\ out.value.patients[1].addressLine = undefined
    /\ out.value.patients[1].city = "Ames"
    /\ out.value.patients[1].phone = undefined
    /\ out.value.patients[2].phone = "555-0101"

(***************************************************************************)
(* A parser followed by the bundle builder, as the handler chains them:    *)
(* parseCSV or parseHL7v2 on an input of SpecCSV or SpecHL7, then          *)
(* createFHIRBundle on the parsed data.                                    *)
(***************************************************************************)
InitParsed == InitHL7 \/ InitCSV

ParseSegmented == "messages" \in DOMAIN arg /\ ParseHL7

ParseTabular == "rows" \in DOMAIN arg /\ ParseCSV

\* The data the parser returned, if it returned.
Parsed == IF "messages" \in DOMAIN arg THEN out.value ELSE out.value.data

\* createFHIRBundle(parsedData)
BundleParsed ==
    /\ out.done
    /\ "rows" \in DOMAIN arg => out.value.ok
    /\ built = <<>>
    /\ built' = <<createFHIRBundle(Parsed, "1")>>
    /\ UNCHANGED <<now, store, inv, data, arg, out>>

NextParsed == ParseSegmented \/ ParseTabular \/ BundleParsed

SpecParsed == InitParsed /\ [][NextParsed]_vars

\* The code texts (OBX-3) of the OBX lines of the messages that have a PID
\* line, in input order.
RECURSIVE ResultCodes(_)
ResultCodes(messages) ==
    IF messages = <<>> THEN <<>>
    ELSE (IF Head(messages).ids = <<>> THEN <<>>
          ELSE LET obx == SelectSeq(Head(messages).lines,
                                    LAMBDA line : StartsWith(line, <<"O","B","X","|">>))
               IN  [r \in 1..Len(obx) |-> Split(obx[r], "|")[4]])
             \o ResultCodes(Tail(messages))

\* A code with every non-alphanumeric character replaced by an underscore.
Underscored(code) ==
    [k \in 1..Len(code) |-> IF IsAlphanumeric(code[k]) THEN code[k] ELSE "_"]

\* C28: across the segmented parser and the mapper, a result segment whose
\* code is in the terminology table yields an Observation whose coding list
\* carries that same code with its display text; a result segment whose code
\* is not in the table yields a type tag equal to the code with every
\* non-alphanumeric character replaced by an underscore, and an Observation
\* with no coding list, only the free text (the type tag with underscores
\* replaced by spaces).
C28_CodeRoundTrip ==
    (built # <<>> /\ "messages" \in DOMAIN arg /\ Headed(arg.messages)) =>
        LET codes == ResultCodes(arg.messages)
            observations == out.value.observations
            first == Len(out.value.patients)
        IN  /\ Len(observations) = Len(codes)
            /\ Len(built[1].entry) = first + Len(codes)
            /\ \A n \in 1..Len(codes) :
                   LET resource == built[1].entry[first + n].resource
                   IN  IF Str(codes[n]) \in DOMAIN OBX_CODE_MAP
                       THEN /\ resource.code.coding # undefined
                            /\ Len(resource.code.coding) = 1
                            /\ resource.code.coding[1].code = Str(codes[n])
                            /\ \E tag \in DOMAIN LOINC_CODES :
                                   /\ LOINC_CODES[tag].code = Str(codes[n])
                                   /\ resource.code.coding[1].display
                                          = LOINC_CODES[tag].display
                       ELSE /\ observations[n].observationType = Underscored(codes[n])
                            /\ resource.code.coding = undefined
                            /\ resource.code.text
                                   = Str(ReplaceAll(Underscored(codes[n]), "_", " "))

\* C30: for every bundle built from the output of the tabular or the
\* segmented parser no observation is dropped as an orphan: each parsed
\* observation's owning identifier is the identifier of a parsed patient,
\* so the bundle has as many entries as there are parsed patients and
\* parsed observations together (the three counts the handler reports).
C30_NoOrphanFromParsers ==
    built # <<>> =>
        /\ \A n \in 1..Len(Parsed.observations) :
               \E k \in 1..Len(Parsed.patients) :
                   Parsed.patients[k].patientId = Parsed.observations[n].patientId
        /\ Len(built[1].entry) = Len(Parsed.patients) + Len(Parsed.observations)
        /\ Cardinality(PatientEntriesOf(built[1])) = Len(Parsed.patients)
        /\ Cardinality(ObservationEntriesOf(built[1])) = Len(Parsed.observations)

C30_Witness ==
    /\ built # <<>>
    /\ "messages" \in DOMAIN arg
    /\ arg.messages = <<MessageMaxAgain, MessageMax>>
    /\ Len(Parsed.patients) = 1
    /\ Len(Parsed.observations) = 2
    /\ Len(built[1].entry) = 3

\* A tabular input whose observations all reach the bundle.
C30_WitnessTabular ==
    /\ built # <<>>
    /\ "rows" \in DOMAIN arg
    /\ Len(Parsed.patients) = 2
    /\ Len(Parsed.observations) = 3
    /\ Len(built[1].entry) = 5

(***************************************************************************)
(* Bundle-builder calls on different inputs: createFHIRBundle called up to *)
(* MaxCalls times, each call with parsed data of its own.                  *)
(***************************************************************************)
CallInputs ==
    LET john == Patient("P001", "John", "Doe", "555-0100", undefined)
        johnny == Patient("P001", "Johnny", "Doe", undefined, "Springfield")
        jane == Patient("P002", "Jane", "Smith", undefined, undefined)
        ofJohn == Observation("P001", heart_rate, NumberValue("72"), "bpm", "2024-01-15")
        ofJane == Observation("P002", blood_type, StringValue("A+"), "", "2024-01-15")
        ofEntry == Observation("urn:uuid:1-1", heart_rate, NumberValue("80"), "bpm",
                               "2024-01-16")
    IN  {[patients |-> <<>>, observations |-> <<>>],
         [patients |-> <<john>>, observations |-> <<ofJohn>>],
         [patients |-> <<jane>>, observations |-> <<ofJohn, ofJane>>],
         [patients |-> <<john, jane>>, observations |-> <<ofJane, ofJohn>>],
         [patients |-> <<>>, observations |-> <<ofJohn>>],
         [patients |-> <<john, johnny>>, observations |-> <<ofJohn, ofEntry>>]}

InitCalls ==
    /\ now = 1
    /\ store = {}
    /\ inv = <<>>
    /\ data = NoData
    /\ built = <<>>
    /\ arg \in [calls : SeqsUpTo(CallInputs, MaxCalls)]
    /\ out = [done |-> FALSE]

\* patientUUIDs as it would be if one map were kept across the calls: the
\* entries of calls 1..c, a later call's entry replacing an earlier one.
RECURSIVE SharedUUIDs(_, _)
SharedUUIDs(calls, c) ==
    IF c = 0 THEN <<>>
    ELSE patientUUIDs(calls[c].patients, ToString(c)) @@ SharedUUIDs(calls, c - 1)

\* A call whose observation loop resolves owners against one map kept
\* across the calls.
BuildCallSharedMap ==
    /\ Len(built) < Len(arg.calls)
    /\ LET c == Len(built) + 1
           d == arg.calls[c]
           seed == ToString(c)
           patientEntries ==
               [k \in 1..Len(d.patients) |-> PatientEntry(d.patients[k], uuidv4(seed, k))]
       IN  built' = Append(built,
                           [resourceType |-> "Bundle",
                            type |-> "transaction",
                            entry |-> ObservationEntries(patientEntries, d.observations,
                                                         SharedUUIDs(arg.calls, c), seed,
                                                         Len(d.patients))])
    /\ UNCHANGED <<now, store, inv, data, arg, out>>

\* createFHIRBundle(data) on the next input
BuildCall ==
    /\ Len(built) < Len(arg.calls)
    /\ built' = Append(built, createFHIRBundle(arg.calls[Len(built) + 1],
                                               ToString(Len(built) + 1)))
    /\ UNCHANGED <<now, store, inv, data, arg, out>>

NextCalls == BuildCall

SpecCalls == InitCalls /\ [][NextCalls]_vars

\* The observations of d whose owner is one of the patients of d.
OwnedIn(d) ==
    SelectSeq(d.observations,
              LAMBDA o : \E k \in 1..Len(d.patients) : d.patients[k].patientId = o.patientId)

\* C29: temporary identities are scoped to one bundle-builder call: within
\* a bundle no two entries have the same identity, no identity of a bundle
\* is an identity of a bundle built by an earlier call, and an observation
\* is resolved only against the patients passed to the same call: the
\* bundle's observation entries are those of the call's observations whose
\* owner is one of the call's patients, each referring to a patient entry of
\* that same bundle, whatever patients earlier calls were given.
C29_IdentitiesScopedToCall ==
    \A c \in 1..Len(built) :
        LET b == built[c]
            d == arg.calls[c]
            owned == OwnedIn(d)
            first == Len(d.patients)
        IN  /\ \A j, k \in 1..Len(b.entry) :
                   j # k => b.entry[j].fullUrl # b.entry[k].fullUrl
            /\ \A e \in 1..(c - 1) :
                   \A j \in 1..Len(built[e].entry), k \in 1..Len(b.entry) :
                       built[e].entry[j].fullUrl # b.entry[k].fullUrl
            /\ Len(b.entry) = first + Len(owned)
            /\ \A n \in 1..Len(owned) :
                   LET entry == b.entry[first + n]
                   IN  /\ IsObservationEntry(entry)
                       /\ entry.request.ifNoneExist = ObservationIfNoneExist(owned[n])
                       /\ \E k \in 1..first :
                              /\ b.entry[k].fullUrl = entry.resource.subject.reference
                              /\ d.patients[k].patientId = owned[n].patientId

\* A second call that is given an observation of a patient only the first
\* call was given, and leaves it out.
C29_Witness ==
    /\ Len(built) = 2
    /\ Len(arg.calls[1].patients) = 1
    /\ arg.calls[1].patients[1].patientId = "P001"
    /\ Len(arg.calls[2].patients) = 1
    /\ arg.calls[2].patients[1].patientId = "P002"
    /\ Len(arg.calls[2].observations) = 2
    /\ arg.calls[2].observations[1].patientId = "P001"
    /\ Len(built[1].entry) = 2
    /\ Len(built[2].entry) = 2
    /\ built[2].entry[2].resource.subject.reference = built[2].entry[1].fullUrl

====
